---- MODULE Spec2Model ----
(***************************************************************************)
(* Model of the analytics service's computation caching engine:            *)
(*   services/tda_computation.py   TDAComputationService, timeout wrapper   *)
(*   services/network_metrics.py   NetworkMetricsService                    *)
(*   models/tda_model.py           TDAModel                                 *)
(*   models/graph_model.py         GraphModel                               *)
(*   utils/persistence_diagram.py  PersistenceDiagramVisualizer             *)
(*                                                                         *)
(* Conventions.  Decimal parameters are kept in tenths (epsilon 0.5 is 5).  *)
(* A Python dict is a record [none, order, map]: `order` is the insertion   *)
(* order of its keys and `map` the key/value mapping; None is none = TRUE.  *)
(* hash() of a str or bytes object is a collision-free digest, written      *)
(* <<"hash", preimage>>.  The numerical library calls (distance matrix,     *)
(* persistence, centrality) are opaque: deterministic in their arguments,   *)
(* and allowed to raise.                                                    *)
(***************************************************************************)
EXTENDS Integers, Sequences, FiniteSets, TLC

VARIABLES
    now,            \* wall clock, seconds (time.time() / datetime.now())
    cache,          \* TDAComputationService._cache: key -> [result, timestamp]
    cache_config,   \* TDAComputationService._cache_config: [max_size, timeout]
    tda_params,     \* TDAModel._tda_params
    tda_cache,      \* TDAModel._cache: hash(distance matrix bytes) -> diagram
    tda_perf,       \* TDAModel._performance_metrics: the keys it holds
    metrics_cache,  \* NetworkMetricsService._cache: key -> metric value
    metrics_born,   \* when each entry of metrics_cache was written (history)
    graph,          \* GraphModel._graph: [nodes, edges]
    graph_cache,    \* GraphModel._cache (weak values): key -> distance matrix
    analysis_cache, \* GraphAnalysisService._cache: key -> [results, params, timestamp]
    callers,        \* the threads calling into TDAComputationService: where each is
    redis,          \* the Redis store of app.py (`cache`): key -> value
    keylog,         \* the cache keys generated most recently (history)
    last            \* the most recent call and what it gave back (history)

vars == <<now, cache, cache_config, tda_params, tda_cache, tda_perf,
          metrics_cache, metrics_born, graph, graph_cache, analysis_cache,
          callers, redis, keylog, last>>

storeVars == <<cache, cache_config>>
tdaVars == <<tda_params, tda_cache, tda_perf>>
graphVars == <<graph, graph_cache>>
metricsVars == <<metrics_cache, metrics_born>>

(***************************************************************************)
(* Bounds of the model                                                     *)
(***************************************************************************)
MaxIdle == 2        \* seconds the clock may tick one by one
MaxSlowCalls == 1   \* calls allowed to outlast COMPUTATION_TIMEOUT
MaxCapacity == 2    \* largest configured cache_config['max_size']
MaxTTL == 1         \* largest configured cache_config['timeout']
MaxCallers == 2     \* threads that call into one service at a time

(***************************************************************************)
(* Program constants                                                       *)
(***************************************************************************)
COMPUTATION_TIMEOUT == 300
MAX_BATCH_SIZE == 5000
DiagramCols == 2        \* tda_model.py: rows of the diagram are [birth, death]
VizRequiredCols == 3    \* persistence_diagram.py: shape[1] != 3 is rejected
euclidean == 1
manhattan == 2
cosine == 3

(***************************************************************************)
(* Python dicts                                                            *)
(***************************************************************************)
EmptyMap == [k \in {} |-> 0]

None == [none |-> TRUE, order |-> <<>>, map |-> EmptyMap]

Dict(order, map) == [none |-> FALSE, order |-> order, map |-> map]

DictKeys(d) == {d.order[i] : i \in 1..Len(d.order)}

\* bool(d): None and the empty dict are falsy
Truthy(d) == ~d.none /\ Len(d.order) > 0

\* str(d): the items rendered in insertion order
Str(d) == [i \in 1..Len(d.order) |-> <<d.order[i], d.map[d.order[i]]>>]

\* the keys of b that a does not hold, in b's order
RECURSIVE NewKeys(_, _)
NewKeys(a, border) ==
    IF border = <<>> THEN <<>>
    ELSE IF Head(border) \in DictKeys(a)
         THEN NewKeys(a, Tail(border))
         ELSE <<Head(border)>> \o NewKeys(a, Tail(border))

\* a.update(b), also {**a, **b}: a's keys keep their place, b's values win
DictUpdate(a, b) ==
    Dict(a.order \o NewKeys(a, b.order),
         [k \in DictKeys(a) \cup DictKeys(b) |->
            IF k \in DictKeys(b) THEN b.map[k] ELSE a.map[k]])

\* hash(x) of a str or bytes object
Hash(x) == <<"hash", x>>

ZeroHash == <<"int", 0>>

(***************************************************************************)
(* numpy arrays: the flattened content as runs <<value, count>>, the shape, *)
(* and whether every value is finite                                       *)
(***************************************************************************)
Array(runs, rows, cols, finite) ==
    [runs |-> runs, rows |-> rows, cols |-> cols, finite |-> finite]

ToBytes(a) == a.runs

Size(a) == a.rows * a.cols

D1 == Array(<< <<1, 4>> >>, 2, 2, TRUE)
D1r == Array(<< <<1, 4>> >>, 4, 1, TRUE)
D2 == Array(<< <<2, 4>> >>, 2, 2, TRUE)
DL == Array(<< <<1, MAX_BATCH_SIZE + 1>> >>, MAX_BATCH_SIZE + 1, 1, TRUE)
DE == Array(<<>>, 0, 0, TRUE)
DNaN == Array(<< <<0, 4>> >>, 2, 2, FALSE)

Arrays == {D1, D1r, D2, DL, DE, DNaN}

(***************************************************************************)
(* TDA parameter dicts                                                     *)
(***************************************************************************)
TdaKeyOrder ==
    <<"epsilon", "minPoints", "dimension", "persistenceThreshold", "distanceMetric">>

DEFAULT_TDA_PARAMS ==
    Dict(TdaKeyOrder \o <<"batchSize", "cacheTimeout", "memoryLimit">>,
         [epsilon |-> 5, minPoints |-> 15, dimension |-> 2,
          persistenceThreshold |-> 3, distanceMetric |-> euclidean,
          batchSize |-> 1000, cacheTimeout |-> 3600, memoryLimit |-> 4])

TdaMap(eps) ==
    [epsilon |-> eps, minPoints |-> 15, dimension |-> 2,
     persistenceThreshold |-> 3, distanceMetric |-> euclidean]

PA == Dict(TdaKeyOrder, TdaMap(5))
\* the same key/value pairs as PA, inserted in another order
PAperm ==
    Dict(<<"minPoints", "epsilon", "dimension", "persistenceThreshold", "distanceMetric">>,
         TdaMap(5))
PB == Dict(TdaKeyOrder, TdaMap(3))
Ppartial == Dict(<<"epsilon">>, [epsilon |-> 3])
Pbad == Dict(TdaKeyOrder, TdaMap(11))

ParamChoices == {None, PA, PAperm, PB, Ppartial, Pbad}

\* TDAModel._validate_params: the first check that fails decides the error
ValidateParams(p) ==
    LET ks == DictKeys(p)
        m == p.map
    IN  IF "epsilon" \notin ks THEN "KeyError"
        ELSE IF ~(1 <= m["epsilon"] /\ m["epsilon"] <= 10) THEN "ValueError"
        ELSE IF "minPoints" \notin ks THEN "KeyError"
        ELSE IF ~(5 <= m["minPoints"] /\ m["minPoints"] <= 50) THEN "ValueError"
        ELSE IF "dimension" \notin ks THEN "KeyError"
        ELSE IF m["dimension"] \notin {2, 3} THEN "ValueError"
        ELSE IF "persistenceThreshold" \notin ks THEN "KeyError"
        ELSE IF ~(1 <= m["persistenceThreshold"] /\ m["persistenceThreshold"] <= 9)
             THEN "ValueError"
        ELSE IF "distanceMetric" \notin ks THEN "KeyError"
        ELSE IF m["distanceMetric"] \notin {euclidean, manhattan, cosine}
             THEN "ValueError"
        ELSE "ok"

(***************************************************************************)
(* TDAModel (models/tda_model.py)                                          *)
(***************************************************************************)
\* graph_utils.batch_process_graph and graph_utils.convert_to_distance_matrix,
\* as imported by tda_model.py: the pairwise distances of the rows of `data`
DistanceMatrix(data, metric) == [of |-> data, metric |-> metric]

\* gudhi's persistence pairs, filtered by the threshold: rows [birth, death]
Persistence(dm, p) ==
    [dm |-> dm, epsilon |-> p.map["epsilon"], dimension |-> p.map["dimension"],
     threshold |-> p.map["persistenceThreshold"], cols |-> DiagramCols]

TdaState(p, c, perf) == [params |-> p, cache |-> c, perf |-> perf]

\* compute_persistence_homology keeping in its cache all the pairs of the
\* persistence, not only the significant ones it returns
ComputePersistenceHomologyCachesAll(dm, st) ==
    LET cache_key == Hash(dm)
    IN  IF cache_key \in DOMAIN st.cache
        THEN [diagram |-> st.cache[cache_key], st |-> st]
        ELSE LET significant_pairs == Persistence(dm, st.params)
                 persistence == [significant_pairs EXCEPT !.threshold = 0]
             IN  [diagram |-> significant_pairs,
                  st |-> TdaState(st.params,
                                  (cache_key :> persistence) @@ st.cache,
                                  st.perf \cup {"persistence_computation_time"})]

\* TDAModel.compute_persistence_homology: the cache key is the matrix alone
ComputePersistenceHomology(dm, st) ==
    LET cache_key == Hash(dm)
    IN  IF cache_key \in DOMAIN st.cache
        THEN [diagram |-> st.cache[cache_key], st |-> st]
        ELSE LET significant_pairs == Persistence(dm, st.params)
             IN  [diagram |-> significant_pairs,
                  st |-> TdaState(st.params,
                                  (cache_key :> significant_pairs) @@ st.cache,
                                  st.perf \cup {"persistence_computation_time"})]

\* TDAModel.compute_tda.  ext = "raise": a library call raises before the
\* persistence computation; ext = "raise_late": one raises after it.
ComputeTda(data, params, ext, st) ==
    LET v == IF Truthy(params) THEN ValidateParams(params) ELSE "ok"
        st1 == IF Truthy(params)
               THEN TdaState(DictUpdate(st.params, params), st.cache, st.perf)
               ELSE st
        dm == DistanceMatrix(data, st1.params.map["distanceMetric"])
        h == ComputePersistenceHomology(dm, st1)
    IN  IF v # "ok" THEN [raised |-> v, st |-> st, result |-> <<>>]
        ELSE IF ext = "raise"
             THEN [raised |-> "RuntimeError", st |-> st1, result |-> <<>>]
        ELSE IF ext = "raise_late"
             THEN [raised |-> "RuntimeError", st |-> h.st, result |-> <<>>]
        ELSE [raised |-> "none", st |-> h.st,
              result |-> [persistence_diagram |-> h.diagram,
                          performance_metrics |-> h.st.perf]]

(***************************************************************************)
(* TDAComputationService (services/tda_computation.py)                     *)
(***************************************************************************)
\* the names bound at module level of tda_computation.py (imports, constants
\* and definitions)
ModuleGlobals ==
    {"np", "gudhi", "logging", "Dict", "List", "Optional", "Any", "Union",
     "wraps", "time", "datetime", "TDAModel", "PersistenceDiagramVisualizer",
     "batch_process_subgraphs", "logger", "COMPUTATION_TIMEOUT",
     "MAX_BATCH_SIZE", "CACHE_TIMEOUT", "MAX_CACHE_SIZE", "timeout",
     "validate_input", "monitor_performance", "TDAComputationService"}

EmptyCache == Dict(<<>>, EmptyMap)

CacheLen(c) == Len(c.order)

Entry(result, t) == [result |-> result, timestamp |-> t]

\* del d[k]
RECURSIVE SeqWithout(_, _)
SeqWithout(s, ks) ==
    IF s = <<>> THEN <<>>
    ELSE IF Head(s) \in ks THEN SeqWithout(Tail(s), ks)
         ELSE <<Head(s)>> \o SeqWithout(Tail(s), ks)

DictDel(d, ks) ==
    Dict(SeqWithout(d.order, ks), [k \in DictKeys(d) \ ks |-> d.map[k]])

\* d[k] = v
DictSet(d, k, v) == DictUpdate(d, Dict(<<k>>, (k :> v)))

\* sorted(keys, key=timestamp): stable, ties keep the dict's order
RECURSIVE InsertByTime(_, _, _)
InsertByTime(k, s, m) ==
    IF s = <<>> THEN <<k>>
    ELSE IF m[Head(s)].timestamp <= m[k].timestamp
         THEN <<Head(s)>> \o InsertByTime(k, Tail(s), m)
         ELSE <<k>> \o s

RECURSIVE SortedByTime(_, _)
SortedByTime(s, m) ==
    IF s = <<>> THEN <<>>
    ELSE InsertByTime(s[Len(s)], SortedByTime(SubSeq(s, 1, Len(s) - 1), m), m)

IsExpired(e, t, cfg) == t - e.timestamp > cfg.timeout

\* TDAComputationService._cleanup_cache.  Its first statement after reading the
\* clock evaluates the name `timedelta`.
CleanupCache(c, t, cfg) ==
    IF "timedelta" \notin ModuleGlobals
    THEN [raised |-> "NameError", cache |-> c]
    ELSE LET expired_keys == {k \in DictKeys(c) : IsExpired(c.map[k], t, cfg)}
             c1 == DictDel(c, expired_keys)
             sorted_keys == SortedByTime(c1.order, c1.map)
             oldest == {sorted_keys[i] : i \in 1..(CacheLen(c1) \div 2)}
         IN  [raised |-> "none",
              cache |-> IF CacheLen(c1) >= cfg.max_size
                        THEN DictDel(c1, oldest) ELSE c1]

AtCapacityOffByOne(c, cfg) == CacheLen(c) > cfg.max_size

\* _cache_result's test before it inserts
AtCapacity(c, cfg) == CacheLen(c) >= cfg.max_size

\* TDAComputationService._cache_result
CacheResult(c, key, result, t, cfg) ==
    LET swept == IF AtCapacity(c, cfg) THEN CleanupCache(c, t, cfg)
                 ELSE [raised |-> "none", cache |-> c]
    IN  IF swept.raised # "none"
        THEN [raised |-> swept.raised, cache |-> swept.cache]
        ELSE [raised |-> "none",
              cache |-> DictSet(swept.cache, key, Entry(result, t))]

\* TDAComputationService._generate_cache_key
GenerateCacheKey(data, params) ==
    LET data_hash == Hash(ToBytes(data))
        params_hash == IF Truthy(params) THEN Hash(Str(params)) ELSE ZeroHash
    IN  <<data_hash, params_hash>>

\* graph_utils.batch_process_subgraphs(graph, batch_size, process_fn=None).
\* batch_compute_tda calls it without a process_fn.  With one, the subgraphs
\* are those of a fresh GraphModel(), whose graph is empty.
BatchProcessSubgraphs(g, batch_size, process_fn) ==
    IF process_fn = "None"
    THEN [raised |-> "ValueError", results |-> <<>>]
    ELSE [raised |-> "none", results |-> <<>>]

\* TDAComputationService.batch_compute_tda
BatchComputeTda(network_data, batch_size) ==
    BatchProcessSubgraphs(network_data, batch_size, "None")

NoRet == [nothing |-> TRUE]

\* what a call left behind: the operation, its cache key, how it ended ("none":
\* it returned after a miss, "hit": it returned a cache hit, else the exception),
\* the value returned (of a put: the value handed in), the age of the entry a
\* hit returned, whether the library computation ran to its end, and whether
\* the store held the key beforehand; `turn` alternates, to tell a call from
\* the one before it
Call(op, key, outcome, ret, age, computed, held) ==
    [op |-> op, key |-> key, outcome |-> outcome, ret |-> ret, age |-> age,
     computed |-> computed, held |-> held, turn |-> 1 - last.turn]

NoKey == <<>>

\* a thread that is not inside a call; outcome is how its last call ended
IdleCaller ==
    [pc |-> "idle", op |-> "none", key |-> NoKey, data |-> DE, params |-> None,
     result |-> NoRet, outcome |-> "none", overlapped |-> FALSE]

NoCall ==
    [op |-> "init", key |-> NoKey, outcome |-> "none", ret |-> NoRet, age |-> 0,
     computed |-> FALSE, held |-> FALSE, turn |-> 0]

\* the clock: ticks of one second, and calls that outlast COMPUTATION_TIMEOUT
Ticks(t) == t % (COMPUTATION_TIMEOUT + 1)
SlowCalls(t) == t \div (COMPUTATION_TIMEOUT + 1)
Durations == {0, COMPUTATION_TIMEOUT + 1}

\* the body of compute_network_tda under validate_input and monitor_performance,
\* started at time t and taking dur seconds
NetworkTdaBody(data, params, dur, ext, c, cfg, st, t) ==
    LET cache_key == GenerateCacheKey(data, params)
        same == [cache |-> c, st |-> st]
        tda == ComputeTda(data, params, ext, st)
        results == [persistence_diagram |-> tda.result.persistence_diagram,
                    computation_time |-> "computation_time",
                    timestamp |-> t + dur]
        put == CacheResult(c, cache_key, results, t + dur, cfg)
    IN  IF Size(data) = 0 \/ ~data.finite
        THEN same @@ [raised |-> "ValueError", ret |-> NoRet, key |-> NoKey,
                      computed |-> FALSE]
        ELSE IF cache_key \in DictKeys(c)
        THEN same @@ [raised |-> "hit", ret |-> c.map[cache_key],
                      key |-> cache_key, computed |-> FALSE]
        ELSE IF data.rows > MAX_BATCH_SIZE
        THEN same @@ [raised |-> BatchComputeTda(data, MAX_BATCH_SIZE).raised,
                      ret |-> NoRet, key |-> cache_key, computed |-> FALSE]
        ELSE IF tda.raised # "none"
        THEN [cache |-> c, st |-> tda.st, raised |-> tda.raised, ret |-> NoRet,
              key |-> cache_key, computed |-> FALSE]
        ELSE IF tda.result.persistence_diagram.cols # VizRequiredCols
        THEN [cache |-> c, st |-> tda.st, raised |-> "ValueError", ret |-> NoRet,
              key |-> cache_key, computed |-> TRUE]
        ELSE IF "computation_time" \notin tda.result.performance_metrics
        THEN [cache |-> c, st |-> tda.st, raised |-> "KeyError", ret |-> NoRet,
              key |-> cache_key, computed |-> TRUE]
        ELSE IF put.raised # "none"
        THEN [cache |-> put.cache, st |-> tda.st, raised |-> put.raised,
              ret |-> NoRet, key |-> cache_key, computed |-> TRUE]
        ELSE [cache |-> put.cache, st |-> tda.st, raised |-> "none",
              ret |-> results, key |-> cache_key, computed |-> TRUE]

\* the request gets as far as calling the library
ReachesLibrary(data, params, c) ==
    /\ Size(data) # 0 /\ data.finite /\ data.rows <= MAX_BATCH_SIZE
    /\ GenerateCacheKey(data, params) \notin DictKeys(c)
    /\ ComputeTda(data, params, "ok", TdaState(DEFAULT_TDA_PARAMS, EmptyMap, {})).raised = "none"

\* the timeout decorator: the deadline is looked at after func has returned
TimeoutWrapper(r, dur) ==
    IF r.raised \in {"none", "hit"} /\ dur > COMPUTATION_TIMEOUT
    THEN [r EXCEPT !.raised = "TimeoutError", !.ret = NoRet]
    ELSE r

\* nx.Graph(): the nodes are 1..nodes, the edges a set of node pairs
Graph(n, e) == [nodes |-> n, edges |-> e]

EmptyGraph == Graph(0, {})

(***************************************************************************)
(* Actions of the TDA computation service                                  *)
(***************************************************************************)
InitService ==
    /\ now = 0
    /\ cache = EmptyCache
    /\ cache_config \in [max_size : 1..MaxCapacity, timeout : 1..MaxTTL]
    /\ tda_params = DEFAULT_TDA_PARAMS
    /\ tda_cache = EmptyMap
    /\ tda_perf = {}
    /\ metrics_cache = EmptyMap
    /\ metrics_born = EmptyMap
    /\ graph = EmptyGraph
    /\ graph_cache = EmptyMap
    /\ analysis_cache = EmptyMap
    /\ callers = [t \in 1..MaxCallers |-> IdleCaller]
    /\ redis = EmptyMap
    /\ keylog = <<>>
    /\ last = NoCall

Tick ==
    /\ Ticks(now) < MaxIdle
    /\ now' = now + 1
    /\ UNCHANGED <<redis, analysis_cache, callers, storeVars, tdaVars, metricsVars, graphVars, keylog, last>>

\* a call of compute_network_tda(network_data, params)
ComputeNetworkTda(data, params, dur, ext) ==
    /\ dur > 0 => SlowCalls(now) < MaxSlowCalls
    /\ ext # "ok" => ReachesLibrary(data, params, cache)
    /\ LET r == TimeoutWrapper(
                    NetworkTdaBody(data, params, dur, ext, cache, cache_config,
                                   TdaState(tda_params, tda_cache, tda_perf), now),
                    dur)
       IN  /\ now' = now + dur
           /\ cache' = r.cache
           /\ tda_params' = r.st.params
           /\ tda_cache' = r.st.cache
           /\ tda_perf' = r.st.perf
           /\ last' = Call("tda", r.key, r.raised, r.ret,
                           IF r.raised = "hit" THEN now - r.ret.timestamp ELSE 0,
                           r.computed, r.key \in DictKeys(cache))
    /\ UNCHANGED <<redis, analysis_cache, callers, cache_config, metricsVars, graphVars, keylog>>

Payloads == {[persistence_diagram |-> 1], [persistence_diagram |-> 2]}

\* the requests made of the service
ServiceArrays == {D1, DL, DE, DNaN}
ServiceParams == {None, PA, Pbad}

PutKeys == {GenerateCacheKey(D1, p) : p \in {None, PA}}

\* a call of _cache_result(key, result)
Put(key, result) ==
    /\ LET r == CacheResult(cache, key, result, now, cache_config)
       IN  /\ cache' = r.cache
           /\ last' = Call("put", key, r.raised, result, 0, FALSE,
                           key \in DictKeys(cache))
    /\ UNCHANGED <<redis, analysis_cache, callers, now, cache_config, tdaVars, metricsVars, graphVars, keylog>>

NextService ==
    \/ Tick
    \/ \E d \in ServiceArrays, p \in ServiceParams, dur \in Durations,
          ext \in {"ok", "raise", "raise_late"} :
            ComputeNetworkTda(d, p, dur, ext)
    \/ \E k \in PutKeys, v \in Payloads : Put(k, v)

Spec == InitService /\ [][NextService]_vars

\* the store alone: nothing but puts, and time passing between them
StoreKeys == {GenerateCacheKey(D1, p) : p \in {None, PA, PAperm}}

NextStore ==
    \/ Tick
    \/ \E k \in StoreKeys, v \in Payloads : Put(k, v)

SpecStore == InitService /\ [][NextStore]_vars

(***************************************************************************)
(* Claims about the TDA computation service's cache                        *)
(***************************************************************************)
PutStep == last'.op = "put" /\ last'.turn # last.turn
LookupStep == last'.op = "tda" /\ last'.turn # last.turn /\ now' = now

\* C2: the same request made twice, its computation having run to the end the
\* first time and nothing having touched the cache in between, is a cache hit the
\* second time and returns what the first call returned (a second call in which
\* the library itself fails is left aside).
C2_Idempotent ==
    [][(/\ last.op = "tda" /\ last.computed
        /\ LookupStep /\ last'.key = last.key
        /\ last'.outcome # "RuntimeError")
       => (last'.outcome = "hit" /\ last'.ret = last.ret)]_vars

\* C4: the store never holds more entries than cache_config['max_size'].
C4_CapacityBound == CacheLen(cache) <= cache_config.max_size

C4_FullAfterPut ==
    /\ last.op = "put" /\ last.outcome = "none"
    /\ cache_config.max_size = MaxCapacity
    /\ CacheLen(cache) = cache_config.max_size

\* C5: a put that finds the store at capacity removes every entry whose TTL has
\* run out, and removes an entry whose TTL has not run out only if the entries
\* left without the expired ones still fill the store.
C5_ExpiredEvictedFirst ==
    [][(PutStep /\ AtCapacity(cache, cache_config))
       => LET expired == {k \in DictKeys(cache) :
                             IsExpired(cache.map[k], now, cache_config)}
              removed == DictKeys(cache) \ DictKeys(cache')
          IN  /\ expired \ {last'.key} \subseteq removed
              /\ removed \ expired # {}
                    => Cardinality(DictKeys(cache) \ expired) >= cache_config.max_size]_vars

\* C6: a put that finds n entries, none expired, in a store at capacity removes
\* exactly n \div 2 of them, none younger than one that stays.
C6_OldestHalfEvicted ==
    [][(/\ PutStep /\ AtCapacity(cache, cache_config) /\ ~last'.held
        /\ \A k \in DictKeys(cache) : ~IsExpired(cache.map[k], now, cache_config))
       => LET removed == DictKeys(cache) \ DictKeys(cache')
          IN  /\ Cardinality(removed) = CacheLen(cache) \div 2
              /\ \A r \in removed, k \in DictKeys(cache) \ removed :
                    cache.map[r].timestamp <= cache.map[k].timestamp]_vars

\* C7: a request that missed the cache and whose computation ran to its end
\* leaves an entry for its own key.
C7_MissLeavesEntry ==
    (last.op = "tda" /\ last.computed) => last.key \in DictKeys(cache)

\* C8: after put(k, v) on a store that holds k, the store holds one entry for k
\* with v and the time of the put, and the next lookup of k within the TTL
\* returns v.
C8_PutOverwrites ==
    [][/\ (PutStep /\ last'.held /\ last'.outcome = "none")
          => /\ Cardinality({i \in 1..CacheLen(cache') : cache'.order[i] = last'.key}) = 1
             /\ cache'.map[last'.key] = Entry(last'.ret, now)
       /\ (/\ last.op = "put" /\ last.held /\ last.outcome = "none"
           /\ LookupStep /\ last'.key = last.key
           /\ now - cache.map[last.key].timestamp <= cache_config.timeout)
          => (last'.outcome = "hit" /\ last'.ret = last.ret)]_vars

(***************************************************************************)
(* NetworkMetricsService (services/network_metrics.py)                     *)
(***************************************************************************)
SUPPORTED_METRICS ==
    {"betweenness_centrality", "eigenvector_centrality", "clustering_coefficient",
     "degree_centrality", "closeness_centrality"}

\* tol is in units of 1e-6, memory_limit in GB, weight None = 0, True = 1
METRIC_DEFAULTS ==
    Dict(<<"normalize", "weight", "k", "tol", "max_retries", "cache_ttl",
           "memory_limit">>,
         [normalize |-> 1, weight |-> 0, k |-> 100, tol |-> 1, max_retries |-> 3,
          cache_ttl |-> 3600, memory_limit |-> 2])

\* (params or {})
OrEmpty(params) == IF Truthy(params) THEN params ELSE Dict(<<>>, EmptyMap)

\* f"{metric}_{hash(str(computation_params))}"
MetricsCacheKey(metric, computation_params) ==
    <<metric, Hash(Str(computation_params))>>

\* networkx's centrality of every node of g
Centrality(metric, g, computation_params) ==
    [metric |-> metric, of |-> g, k |-> computation_params.map["k"],
     weight |-> computation_params.map["weight"]]

\* the loop over the requested metrics; `failing` are the metrics whose
\* networkx call raises
RECURSIVE CentralityLoop(_, _, _, _, _)
CentralityLoop(metrics, computation_params, g, failing, acc) ==
    IF metrics = <<>> THEN acc
    ELSE LET metric == Head(metrics)
             cache_key == MetricsCacheKey(metric, computation_params)
         IN  IF cache_key \in DOMAIN acc.cache
             THEN CentralityLoop(Tail(metrics), computation_params, g, failing,
                      [acc EXCEPT !.results = (metric :> acc.cache[cache_key]) @@ @,
                                  !.hits = @ \cup {cache_key}])
             ELSE IF metric \in failing
             THEN [acc EXCEPT !.raised = "NetworkXError"]
             ELSE LET value == Centrality(metric, g, computation_params)
                  IN  CentralityLoop(Tail(metrics), computation_params, g, failing,
                          [acc EXCEPT !.cache = (cache_key :> value) @@ @,
                                      !.results = (metric :> value) @@ @,
                                      !.performance = @ \cup {metric}])

SeqRange(s) == {s[i] : i \in 1..Len(s)}

CentralityMetricsBody(metrics, params, failing, c, g) ==
    IF SeqRange(metrics) \ SUPPORTED_METRICS # {}
    THEN [cache |-> c, raised |-> "ValueError", results |-> EmptyMap,
          performance |-> {}, hits |-> {}]
    ELSE CentralityLoop(metrics, DictUpdate(METRIC_DEFAULTS, OrEmpty(params)), g,
                        failing,
                        [cache |-> c, raised |-> "none", results |-> EmptyMap,
                         performance |-> {}, hits |-> {}])

\* a call of compute_centrality_metrics(metrics, params)
ComputeCentralityMetrics(metrics, params, failing) ==
    /\ LET r == CentralityMetricsBody(metrics, params, failing, metrics_cache, graph)
       IN  /\ metrics_cache' = r.cache
           /\ metrics_born' = [k \in DOMAIN r.cache |->
                                  IF k \in DOMAIN metrics_cache THEN metrics_born[k]
                                  ELSE now]
           /\ last' = Call("metrics", NoKey, r.raised,
                           IF r.raised = "none"
                           THEN [metrics |-> r.results, performance |-> r.performance]
                           ELSE NoRet,
                           IF r.hits = {} THEN 0
                           ELSE now - metrics_born[CHOOSE k \in r.hits :
                                   \A j \in r.hits : metrics_born[k] <= metrics_born[j]],
                           r.performance # {}, r.hits # {})
    /\ UNCHANGED <<redis, analysis_cache, callers, now, storeVars, tdaVars, graphVars, keylog>>

\* time passes: longer than the cache_ttl of METRIC_DEFAULTS
Elapse ==
    /\ now = 0
    /\ now' = METRIC_DEFAULTS.map["cache_ttl"] + 1
    /\ UNCHANGED <<redis, analysis_cache, callers, storeVars, tdaVars, metricsVars, graphVars, keylog, last>>

MK == Dict(<<"k", "weight">>, [k |-> 10, weight |-> 1])
MKperm == Dict(<<"weight", "k">>, [k |-> 10, weight |-> 1])
MX == Dict(<<"graph", "seed">>, [graph |-> 1, seed |-> 7])
MXperm == Dict(<<"seed", "graph">>, [graph |-> 1, seed |-> 7])

MetricLists ==
    {<<"degree_centrality">>,
     <<"degree_centrality", "closeness_centrality">>,
     <<"closeness_centrality", "degree_centrality">>,
     <<"pagerank">>}
MetricParams == {None, MX, MXperm}

NextMetrics ==
    \/ Elapse
    \/ \E metrics \in MetricLists, params \in MetricParams,
          failing \in {{}, {"closeness_centrality"}} :
            ComputeCentralityMetrics(metrics, params, failing)

SpecMetrics == InitService /\ [][NextMetrics]_vars

\* C1: a lookup never returns an entry that is older than its TTL: neither the
\* TDA service's store nor the metrics service's gives back an entry written
\* longer ago than the TTL.
C1_NoStaleHit ==
    /\ (last.op = "tda" /\ last.outcome = "hit") => last.age <= cache_config.timeout
    /\ (last.op = "metrics" /\ last.held)
           => last.age <= METRIC_DEFAULTS.map["cache_ttl"]

\* C3: a call that ends in an error leaves the cache as it found it.
C3_FailureWritesNothing ==
    [][(/\ last'.turn # last.turn /\ last'.op \in {"tda", "metrics"}
        /\ last'.outcome \notin {"none", "hit"})
        => (cache' = cache /\ metrics_cache' = metrics_cache)]_vars

(***************************************************************************)
(* GraphModel (models/graph_model.py) and TDAModel as called directly      *)
(***************************************************************************)
MaxNodes == 2

\* sparse.csgraph.shortest_path over the adjacency matrix of g
ShortestPath(g) == [distances_of |-> g]

\* f"distance_matrix_{metric_type}_{self._graph.number_of_nodes()}"
DistanceCacheKey(metric_type, g) == <<"distance_matrix", metric_type, g.nodes>>

\* GraphModel.convert_to_distance_matrix; ext = "raise": a library call raises
ConvertToDistanceMatrix(metric_type, ext, c, g) ==
    LET cache_key == DistanceCacheKey(metric_type, g)
        distance_matrix == ShortestPath(g)
    IN  IF cache_key \in DOMAIN c
        THEN [cache |-> c, raised |-> "hit", ret |-> c[cache_key], key |-> cache_key]
        ELSE IF ext = "raise"
        THEN [cache |-> c, raised |-> "NetworkXError", ret |-> NoRet,
              key |-> cache_key]
        ELSE [cache |-> (cache_key :> distance_matrix) @@ c, raised |-> "none",
              ret |-> distance_matrix, key |-> cache_key]

\* the holder of the model's graph adds a node or an edge to it
AddNode ==
    /\ graph.nodes < MaxNodes
    /\ graph' = Graph(graph.nodes + 1, graph.edges)
    /\ last' = Call("add_node", NoKey, "none", NoRet, 0, FALSE, FALSE)
    /\ UNCHANGED <<redis, analysis_cache, callers, now, storeVars, tdaVars, metricsVars, graph_cache, keylog>>

AddEdge(u, v) ==
    /\ u < v /\ v <= graph.nodes /\ {u, v} \notin graph.edges
    /\ graph' = Graph(graph.nodes, graph.edges \cup {{u, v}})
    /\ last' = Call("add_edge", NoKey, "none", NoRet, 0, FALSE, FALSE)
    /\ UNCHANGED <<redis, analysis_cache, callers, now, storeVars, tdaVars, metricsVars, graph_cache, keylog>>

\* a call of GraphModel.convert_to_distance_matrix(metric_type)
GraphConvertToDistanceMatrix(metric_type, ext) ==
    /\ ext # "ok" => DistanceCacheKey(metric_type, graph) \notin DOMAIN graph_cache
    /\ LET r == ConvertToDistanceMatrix(metric_type, ext, graph_cache, graph)
       IN  /\ graph_cache' = r.cache
           /\ last' = Call("distance_matrix", r.key, r.raised, r.ret, 0,
                           r.raised = "none", r.key \in DOMAIN graph_cache)
    /\ UNCHANGED <<redis, analysis_cache, callers, now, storeVars, tdaVars, metricsVars, graph, keylog>>

\* WeakValueDictionary: the entry goes when its value is garbage-collected
Collect(key) ==
    /\ key \in DOMAIN graph_cache
    /\ graph_cache' = [k \in DOMAIN graph_cache \ {key} |-> graph_cache[k]]
    /\ last' = Call("collect", key, "none", NoRet, 0, FALSE, TRUE)
    /\ UNCHANGED <<redis, analysis_cache, callers, now, storeVars, tdaVars, metricsVars, graph, keylog>>

\* a call of TDAModel.compute_tda(data, params)
TdaComputeTda(data, params, ext) ==
    /\ ext # "ok" => (Truthy(params) => ValidateParams(params) = "ok")
    /\ LET st == TdaState(tda_params, tda_cache, tda_perf)
           r == ComputeTda(data, params, ext, st)
           cache_key == Hash(DistanceMatrix(data, r.st.params.map["distanceMetric"]))
       IN  /\ tda_params' = r.st.params
           /\ tda_cache' = r.st.cache
           /\ tda_perf' = r.st.perf
           /\ last' = Call("compute_tda", cache_key, r.raised,
                           IF r.raised = "none" THEN r.result.persistence_diagram
                           ELSE NoRet,
                           0, cache_key \notin DOMAIN tda_cache,
                           cache_key \in DOMAIN tda_cache)
    /\ UNCHANGED <<redis, analysis_cache, callers, now, storeVars, metricsVars, graphVars, keylog>>

\* a call of TDAModel.compute_persistence_homology(distance_matrix)
TdaComputePersistenceHomology(dm) ==
    /\ LET st == TdaState(tda_params, tda_cache, tda_perf)
           r == ComputePersistenceHomology(dm, st)
       IN  /\ tda_cache' = r.st.cache
           /\ tda_perf' = r.st.perf
           /\ last' = Call("homology", Hash(dm),
                           IF Hash(dm) \in DOMAIN tda_cache THEN "hit" ELSE "none",
                           r.diagram, 0, Hash(dm) \notin DOMAIN tda_cache,
                           Hash(dm) \in DOMAIN tda_cache)
    /\ UNCHANGED <<redis, analysis_cache, callers, now, storeVars, tda_params, metricsVars, graphVars, keylog>>

\* a call of TDAModel._validate_params(params)
CallValidateParams(params) ==
    /\ LET v == ValidateParams(params)
       IN  last' = Call("validate_params", <<Str(params)>>,
                        IF v = "ok" THEN "none" ELSE v,
                        IF v = "ok" THEN params ELSE NoRet, 0, FALSE, FALSE)
    /\ UNCHANGED <<redis, analysis_cache, callers, now, storeVars, tdaVars, metricsVars, graphVars, keylog>>

\* dict d with value v under key k, unless v is -1
WithItem(d, k, v) == IF v = -1 THEN d ELSE DictSet(d, k, v)

\* parameter maps as the callers write them: any of epsilon (in tenths),
\* minPoints and dimension, in range or out of it, or left out (-1), with or
\* without the threshold and the distance metric
ParamMaps ==
    {WithItem(WithItem(WithItem(
        IF rest
        THEN Dict(<<"persistenceThreshold", "distanceMetric">>,
                  [persistenceThreshold |-> 3, distanceMetric |-> euclidean])
        ELSE Dict(<<>>, EmptyMap),
        "epsilon", e), "minPoints", m), "dimension", d) :
       e \in {-1, 0, 5}, m \in {-1, 15, 51}, d \in {-1, 2, 4},
       rest \in BOOLEAN}

NextTdaModel ==
    \/ \E params \in ParamMaps : CallValidateParams(params)
    \/ \E d \in {D1, D2}, m \in {euclidean, cosine} :
          TdaComputePersistenceHomology(DistanceMatrix(d, m))

SpecTdaModel == InitService /\ [][NextTdaModel]_vars

MetricTypes == {"None", "euclidean"}
ModelArrays == {D1}
ModelParams == {None, PB, Pbad}

NextModels ==
    \/ AddNode
    \/ \E u, v \in 1..MaxNodes : AddEdge(u, v)
    \/ \E m \in MetricTypes, ext \in {"ok", "raise"} :
          GraphConvertToDistanceMatrix(m, ext)
    \/ \E m \in MetricTypes, n \in 0..MaxNodes :
          Collect(<<"distance_matrix", m, n>>)
    \/ \E d \in ModelArrays, p \in ModelParams, ext \in {"ok", "raise", "raise_late"} :
          TdaComputeTda(d, p, ext)
    \/ \E d \in ModelArrays : TdaComputePersistenceHomology(DistanceMatrix(d, euclidean))

SpecModels == InitService /\ [][NextModels]_vars

\* C10: a value taken from a model's cache is the value of the graph the model
\* holds now, or of the matrix asked about under the parameters the model has now.
C10_ServedForSameInput ==
    [][/\ (/\ last'.turn # last.turn /\ last'.op = "distance_matrix"
           /\ last'.outcome = "hit")
            => last'.ret = ShortestPath(graph')
       /\ (/\ last'.turn # last.turn
           /\ last'.op \in {"compute_tda", "homology"} /\ last'.held
           /\ last'.outcome \in {"none", "hit"})
            => last'.ret = Persistence(last'.key[2], tda_params')]_vars

(***************************************************************************)
(* The cache keys (fingerprints)                                           *)
(***************************************************************************)
MaxWorkers == 2
KeyLogLen == 2

\* f"graph_analysis_{hash(str(request.query_params))}", in worker process
\* `worker`: each process salts its string hashes on its own
AppCacheKey(worker, query_params) ==
    <<"graph_analysis", <<"hash", worker, Str(query_params)>>>>

KeyEntry(gen, data, params, worker, key) ==
    [gen |-> gen, data |-> data, params |-> params, worker |-> worker, key |-> key]

Log(e) == <<e>> \o SubSeq(keylog, 1, IF Len(keylog) < KeyLogLen THEN Len(keylog)
                                      ELSE KeyLogLen - 1)

\* TDAComputationService._generate_cache_key(data, params)
TdaKey(data, params) ==
    /\ keylog' = Log(KeyEntry("tda", data, params, 0, GenerateCacheKey(data, params)))
    /\ UNCHANGED <<redis, analysis_cache, callers, now, storeVars, tdaVars, metricsVars, graphVars, last>>

\* the cache key of compute_centrality_metrics for one metric
MetricsKey(metric, params) ==
    /\ keylog' = Log(KeyEntry("metrics", metric, params, 0,
                     MetricsCacheKey(metric, DictUpdate(METRIC_DEFAULTS, OrEmpty(params)))))
    /\ UNCHANGED <<redis, analysis_cache, callers, now, storeVars, tdaVars, metricsVars, graphVars, last>>

\* the cache key of the graph analysis endpoint
AppKey(worker, query_params) ==
    /\ keylog' = Log(KeyEntry("app", "request", query_params, worker,
                     AppCacheKey(worker, query_params)))
    /\ UNCHANGED <<redis, analysis_cache, callers, now, storeVars, tdaVars, metricsVars, graphVars, last>>

QA == Dict(<<"node_type", "limit">>, [node_type |-> 1, limit |-> 50])
QAperm == Dict(<<"limit", "node_type">>, [node_type |-> 1, limit |-> 50])
QB == Dict(<<"node_type", "limit">>, [node_type |-> 2, limit |-> 50])
QueryParams == {QA, QAperm, QB}

NextKey ==
    \/ \E d \in Arrays, p \in ParamChoices : TdaKey(d, p)
    \/ \E m \in {"degree_centrality", "closeness_centrality"},
          p \in {None, MK, MKperm, MX, MXperm} : MetricsKey(m, p)
    \/ \E w \in 1..MaxWorkers, q \in QueryParams : AppKey(w, q)

SpecKey == InitService /\ [][NextKey]_vars

\* the same key/value pairs, whatever the order they were inserted in
SamePairs(a, b) ==
    /\ a.none = b.none
    /\ DictKeys(a) = DictKeys(b)
    /\ \A k \in DictKeys(a) : a.map[k] = b.map[k]

\* C9: two requests with the same data and the same parameter pairs get the same
\* key, whatever the insertion order of the parameters and whenever they are made.
C9_KeyOrderIndependent ==
    \A i, j \in 1..Len(keylog) :
        (/\ keylog[i].gen = keylog[j].gen
         /\ keylog[i].data = keylog[j].data
         /\ SamePairs(keylog[i].params, keylog[j].params))
        => keylog[i].key = keylog[j].key

(***************************************************************************)
(* Partitioning and batch processing (models/graph_model.py,               *)
(* utils/graph_utils.py)                                                   *)
(***************************************************************************)
MaxPartNodes == 3   \* nodes of the largest graph that is partitioned
MaxBatch == 4       \* largest batch_size asked for

MAX_RETRIES == 3

\* the members of class GraphModel
GraphModelAttrs ==
    {"__init__", "_validate_tda_params", "convert_to_distance_matrix",
     "compute_persistence_diagram", "batch_process_graph",
     "compute_network_metrics", "_compute_single_metric", "_normalize_metric",
     "_partition_graph", "get_performance_metrics", "clear_cache",
     "_graph", "_cache", "_tda_params", "_performance_metrics"}

Nodes(g) == 1..g.nodes

RECURSIVE Reach(_, _, _)
Reach(g, s, r) ==
    LET nxt == r \cup {v \in s : \E u \in r : {u, v} \in g.edges}
    IN  IF nxt = r THEN r ELSE Reach(g, s, nxt)

IsConnected(g, s) == s # {} /\ Reach(g, s, {CHOOSE v \in s : TRUE}) = s

\* the ways of listing the node set s as disjoint connected communities
RECURSIVE CommunityLists(_, _)
CommunityLists(g, s) ==
    IF s = {} THEN {<<>>}
    ELSE UNION {{<<c>> \o rest : rest \in CommunityLists(g, s \ c)} :
                   c \in {c \in SUBSET s : IsConnected(g, c)}}

\* nx.community.louvain_communities(g): a list of disjoint communities that
\* cover the nodes, each one connected
LouvainCommunities(g) == CommunityLists(g, Nodes(g))

\* the loop of GraphModel._partition_graph; a partition is kept as its node set
RECURSIVE PartitionLoop(_, _, _, _)
PartitionLoop(communities, batch_size, partitions, current_partition) ==
    IF communities = <<>>
    THEN IF Cardinality(current_partition) > 0
         THEN Append(partitions, current_partition) ELSE partitions
    ELSE LET full == Cardinality(current_partition) >= batch_size
         IN  PartitionLoop(Tail(communities), batch_size,
                 IF full THEN Append(partitions, current_partition) ELSE partitions,
                 (IF full THEN {} ELSE current_partition) \cup Head(communities))

\* _partition_graph keeping the partition it ends with even when that one has
\* no node
PartitionGraphBodyKeepLast(communities, batch_size, ext) ==
    IF ext = "raise"
    THEN [raised |-> "NetworkXError", partitions |-> <<>>]
    ELSE [raised |-> "none",
          partitions |-> IF communities = <<>> THEN << {} >>
                         ELSE PartitionLoop(communities, batch_size, <<>>, {})]

\* _partition_graph putting each partition it closes in front of the ones it
\* closed before
PartitionGraphBodyNewestFirst(communities, batch_size, ext) ==
    IF ext = "raise"
    THEN [raised |-> "NetworkXError", partitions |-> <<>>]
    ELSE LET parts == PartitionLoop(communities, batch_size, <<>>, {})
         IN  [raised |-> "none",
              partitions |-> [i \in 1..Len(parts) |-> parts[Len(parts) + 1 - i]]]

\* GraphModel._partition_graph; ext = "raise": louvain_communities raises
PartitionGraphBody(communities, batch_size, ext) ==
    IF ext = "raise"
    THEN [raised |-> "NetworkXError", partitions |-> <<>>]
    ELSE [raised |-> "none",
          partitions |-> PartitionLoop(communities, batch_size, <<>>, {})]

\* batch_process_graph turning away the negative sizes only
BatchProcessGraphBodyFromZero(communities, batch_size, ext) ==
    LET p == PartitionGraphBody(communities, batch_size, ext)
    IN  IF batch_size < 0 THEN [raised |-> "ValueError", subgraphs |-> <<>>]
        ELSE IF p.raised # "none" THEN [raised |-> p.raised, subgraphs |-> <<>>]
        ELSE IF p.partitions # <<>> /\ "_process_subgraph" \notin GraphModelAttrs
        THEN [raised |-> "AttributeError", subgraphs |-> <<>>]
        ELSE [raised |-> "none", subgraphs |-> p.partitions]

\* GraphModel.batch_process_graph
BatchProcessGraphBody(communities, batch_size, ext) ==
    LET p == PartitionGraphBody(communities, batch_size, ext)
    IN  IF batch_size < 1 THEN [raised |-> "ValueError", subgraphs |-> <<>>]
        ELSE IF p.raised # "none" THEN [raised |-> p.raised, subgraphs |-> <<>>]
        ELSE IF p.partitions # <<>> /\ "_process_subgraph" \notin GraphModelAttrs
        THEN [raised |-> "AttributeError", subgraphs |-> <<>>]
        ELSE [raised |-> "none", subgraphs |-> p.partitions]

\* what batch_process_subgraphs would get from a model holding the graph it
\* was given, with every partition processed
ModelSubgraphsOfGiven(communities, batch_size, ext) ==
    IF batch_size < 1 THEN [raised |-> "ValueError", subgraphs |-> <<>>]
    ELSE [raised |-> "none",
          subgraphs |-> PartitionLoop(communities, batch_size, <<>>, {})]

\* model.batch_process_graph(batch_size) in batch_process_subgraphs: the model
\* is the GraphModel() built two lines before, whose graph has no node;
\* `communities` are those of the graph the function was given
ModelSubgraphs(communities, batch_size, ext) ==
    BatchProcessGraphBody(<<>>, batch_size, ext)

\* process_fn(subgraph) of the first n subgraphs
Processed(subgraphs, n) == [i \in 1..n |-> [processed |-> subgraphs[i]]]

\* the retry loop of batch_process_subgraphs.  fates[i] says where the i-th
\* attempt meets MemoryError: 0 inside batch_process_graph, k > 0 in process_fn
\* on the k-th subgraph (nowhere, if the attempt has fewer subgraphs).
RECURSIVE RetryLoop(_, _, _, _, _, _, _)
RetryLoop(communities, batch_size, ext, fates, retries, results, sizes) ==
    IF retries >= MAX_RETRIES
    THEN [raised |-> "RuntimeError", results |-> results, sizes |-> sizes,
          handed |-> <<>>, retries |-> retries]
    ELSE LET sub == ModelSubgraphs(communities, batch_size, ext)
             n == Len(sub.subgraphs)
             fate == fates[retries + 1]
             tried == Append(sizes, batch_size)
         IN  IF sub.raised # "none"
             THEN [raised |-> sub.raised, results |-> results, sizes |-> tried,
                   handed |-> <<>>, retries |-> retries]
             ELSE IF fate = 0
             THEN RetryLoop(communities, batch_size \div 2, ext, fates,
                            retries + 1, results, tried)
             ELSE IF fate <= n
             THEN RetryLoop(communities, batch_size \div 2, ext, fates,
                            retries + 1,
                            results \o Processed(sub.subgraphs, fate - 1), tried)
             ELSE [raised |-> "none",
                   results |-> results \o Processed(sub.subgraphs, n),
                   sizes |-> tried, handed |-> sub.subgraphs,
                   retries |-> retries]

\* the retry loop with `except Exception` in the place of `except
\* MemoryError`: any error of an attempt halves the batch size and tries again
RECURSIVE RetryLoopAnyError(_, _, _, _, _, _, _)
RetryLoopAnyError(communities, batch_size, ext, fates, retries, results, sizes) ==
    IF retries >= MAX_RETRIES
    THEN [raised |-> "RuntimeError", results |-> results, sizes |-> sizes,
          handed |-> <<>>, retries |-> retries]
    ELSE LET sub == ModelSubgraphs(communities, batch_size, ext)
             n == Len(sub.subgraphs)
             fate == fates[retries + 1]
             tried == Append(sizes, batch_size)
         IN  IF sub.raised # "none" \/ fate = 0
             THEN RetryLoopAnyError(communities, batch_size \div 2, ext, fates,
                                    retries + 1, results, tried)
             ELSE IF fate <= n
             THEN RetryLoopAnyError(communities, batch_size \div 2, ext, fates,
                                    retries + 1,
                                    results \o Processed(sub.subgraphs, fate - 1),
                                    tried)
             ELSE [raised |-> "none",
                   results |-> results \o Processed(sub.subgraphs, n),
                   sizes |-> tried, handed |-> sub.subgraphs,
                   retries |-> retries]

\* batch_process_subgraphs with that loop
BatchProcessSubgraphsBodyRetryAll(communities, batch_size, process_fn, ext, fates) ==
    IF BatchProcessSubgraphs(communities, batch_size, process_fn).raised # "none"
    THEN [raised |-> "ValueError", results |-> <<>>, sizes |-> <<>>,
          handed |-> <<>>, retries |-> 0]
    ELSE RetryLoopAnyError(communities, batch_size, ext, fates, 0, <<>>, <<>>)

\* the retry loop with `while retries <= MAX_RETRIES`: one attempt more, met
\* by the fate of the attempt before it
RECURSIVE RetryLoopOneMore(_, _, _, _, _, _, _)
RetryLoopOneMore(communities, batch_size, ext, fates, retries, results, sizes) ==
    IF retries > MAX_RETRIES
    THEN [raised |-> "RuntimeError", results |-> results, sizes |-> sizes,
          handed |-> <<>>, retries |-> retries]
    ELSE LET sub == ModelSubgraphs(communities, batch_size, ext)
             n == Len(sub.subgraphs)
             fate == fates[IF retries < MAX_RETRIES THEN retries + 1 ELSE MAX_RETRIES]
             tried == Append(sizes, batch_size)
         IN  IF sub.raised # "none"
             THEN [raised |-> sub.raised, results |-> results, sizes |-> tried,
                   handed |-> <<>>, retries |-> retries]
             ELSE IF fate = 0
             THEN RetryLoopOneMore(communities, batch_size \div 2, ext, fates,
                                   retries + 1, results, tried)
             ELSE IF fate <= n
             THEN RetryLoopOneMore(communities, batch_size \div 2, ext, fates,
                                   retries + 1,
                                   results \o Processed(sub.subgraphs, fate - 1),
                                   tried)
             ELSE [raised |-> "none",
                   results |-> results \o Processed(sub.subgraphs, n),
                   sizes |-> tried, handed |-> sub.subgraphs,
                   retries |-> retries]

\* batch_process_subgraphs with that loop
BatchProcessSubgraphsBodyOneMore(communities, batch_size, process_fn, ext, fates) ==
    IF BatchProcessSubgraphs(communities, batch_size, process_fn).raised # "none"
    THEN [raised |-> "ValueError", results |-> <<>>, sizes |-> <<>>,
          handed |-> <<>>, retries |-> 0]
    ELSE RetryLoopOneMore(communities, batch_size, ext, fates, 0, <<>>, <<>>)

\* graph_utils.batch_process_subgraphs(graph, batch_size, process_fn), the
\* graph given by its communities
BatchProcessSubgraphsBody(communities, batch_size, process_fn, ext, fates) ==
    IF BatchProcessSubgraphs(communities, batch_size, process_fn).raised # "none"
    THEN [raised |-> "ValueError", results |-> <<>>, sizes |-> <<>>,
          handed |-> <<>>, retries |-> 0]
    ELSE RetryLoop(communities, batch_size, ext, fates, 0, <<>>, <<>>)

SeqUnion(parts) == UNION {parts[i] : i \in 1..Len(parts)}

PartitionGraphs ==
    UNION {{Graph(n, e) : e \in SUBSET ({{u, v} : u, v \in 1..n} \ {{u} : u \in 1..n})} :
              n \in 0..MaxPartNodes}

\* the holder of the model loads a graph into it
SetGraph(g) ==
    /\ graph # g
    /\ graph' = g
    /\ last' = Call("set_graph", NoKey, "none", NoRet, 0, FALSE, FALSE)
    /\ UNCHANGED <<redis, analysis_cache, callers, now, storeVars, tdaVars, metricsVars, graph_cache, keylog>>

\* what a partitioning call gave back: the communities it worked from, the
\* batch sizes it tried, the partitions of its last attempt and the results
PartRet(communities, sizes, partitions, results, retries) ==
    [communities |-> communities, sizes |-> sizes, partitions |-> partitions,
     results |-> results, retries |-> retries]

\* a call of GraphModel._partition_graph(batch_size)
PartitionGraph(batch_size, communities, ext) ==
    /\ SeqUnion(communities) = Nodes(graph)
    /\ LET r == PartitionGraphBody(communities, batch_size, ext)
       IN  last' = Call("partition_graph", <<batch_size>>, r.raised,
                        PartRet(communities, <<batch_size>>, r.partitions, <<>>, 0),
                        0, r.raised = "none", FALSE)
    /\ UNCHANGED <<redis, analysis_cache, callers, now, storeVars, tdaVars, metricsVars, graphVars, keylog>>

\* a call of GraphModel.batch_process_graph(batch_size)
BatchProcessGraph(batch_size, communities, ext) ==
    /\ SeqUnion(communities) = Nodes(graph)
    /\ LET r == BatchProcessGraphBody(communities, batch_size, ext)
       IN  last' = Call("batch_process_graph", <<batch_size>>, r.raised,
                        PartRet(communities, <<batch_size>>, r.subgraphs, <<>>, 0),
                        0, r.raised = "none", FALSE)
    /\ UNCHANGED <<redis, analysis_cache, callers, now, storeVars, tdaVars, metricsVars, graphVars, keylog>>

\* one of LouvainCommunities(g): every node a community of its own
SomeCommunities(g) == [i \in Nodes(g) |-> {i}]

\* a call of batch_process_subgraphs(self._graph_model._graph, batch_size,
\* process_fn)
CallBatchProcessSubgraphs(batch_size, process_fn, ext, fates) ==
    /\ LET r == BatchProcessSubgraphsBody(SomeCommunities(graph), batch_size,
                                          process_fn, ext, fates)
       IN  last' = Call("batch_process_subgraphs", <<batch_size>>, r.raised,
                        PartRet(<<>>, r.sizes, r.handed, r.results, r.retries),
                        0, r.raised = "none", process_fn # "None")
    /\ UNCHANGED <<redis, analysis_cache, callers, now, storeVars, tdaVars, metricsVars, graphVars, keylog>>

\* MemoryError inside batch_process_graph, in process_fn on the second
\* subgraph, or nowhere
Fates == [1..MAX_RETRIES -> {0, 2, MaxPartNodes + 1}]

NextPartition ==
    \/ \E g \in PartitionGraphs : SetGraph(g)
    \/ \E n \in 0..MaxBatch, cs \in LouvainCommunities(graph), ext \in {"ok", "raise"} :
          PartitionGraph(n, cs, ext)
    \/ \E n \in 0..MaxBatch, cs \in LouvainCommunities(graph), ext \in {"ok", "raise"} :
          BatchProcessGraph(n, cs, ext)
    \/ \E n \in 0..MaxBatch, fn \in {"None", "fn"}, ext \in {"ok", "raise"},
          f \in Fates :
          CallBatchProcessSubgraphs(n, fn, ext, f)

SpecPartition == InitService /\ [][NextPartition]_vars

\* the graph of n nodes in a row, each joined to the next
PathGraph(n) == Graph(n, {{u, u + 1} : u \in 1..(n - 1)})

\* _partition_graph alone, on graphs whose communities have several nodes
NextCommunities ==
    \/ \E n \in 0..MaxPartNodes : SetGraph(PathGraph(n))
    \/ \E n \in 0..MaxPartNodes, cs \in LouvainCommunities(graph), ext \in {"ok", "raise"} :
          PartitionGraph(n, cs, ext)

SpecCommunities == InitService /\ [][NextCommunities]_vars

\* DEFAULT_BATCH_SIZE of graph_analysis.py, one node standing for 500
StructuralBatch == 2

\* the loop of _compute_structural_metrics over the batches:
\* results.update(batch_results) for the centrality metrics of each batch
RECURSIVE StructuralLoop(_, _, _, _, _)
StructuralLoop(batches, metrics, failing, acc, g) ==
    IF batches = <<>> THEN acc
    ELSE LET r == CentralityMetricsBody(metrics,
                      Dict(<<"graph">>, [graph |-> Head(batches)]),
                      failing, acc.cache, g)
             batch_results == [metrics |-> r.results, performance |-> r.performance]
         IN  IF r.raised # "none"
             THEN [acc EXCEPT !.raised = r.raised, !.cache = r.cache]
             ELSE StructuralLoop(Tail(batches), metrics, failing,
                      [raised |-> "none", cache |-> r.cache,
                       results |-> batch_results @@ acc.results,
                       values |-> Append(acc.values, batch_results),
                       batches |-> acc.batches],
                      g)

\* GraphAnalysisService._compute_structural_metrics(graph, metrics), the
\* graph being the one the graph model holds, given by its communities
ComputeStructuralMetricsBody(g, communities, metrics, ext, failing, c) ==
    IF g.nodes > StructuralBatch
    THEN LET sub == BatchProcessGraphBody(communities, StructuralBatch, ext)
         IN  IF sub.raised # "none"
             THEN [raised |-> sub.raised, cache |-> c, results |-> EmptyMap,
                   values |-> <<>>, batches |-> <<>>]
             ELSE StructuralLoop(sub.subgraphs, metrics, failing,
                      [raised |-> "none", cache |-> c, results |-> EmptyMap,
                       values |-> <<>>, batches |-> sub.subgraphs],
                      g)
    ELSE LET r == CentralityMetricsBody(metrics, Dict(<<"graph">>, [graph |-> g]),
                                        failing, c, g)
         IN  [raised |-> r.raised, cache |-> r.cache,
              results |-> IF r.raised = "none"
                          THEN [metrics |-> r.results, performance |-> r.performance]
                          ELSE EmptyMap,
              values |-> <<>>, batches |-> <<>>]

\* a call of _compute_structural_metrics(graph, metrics)
ComputeStructuralMetrics(metrics, communities, ext, failing) ==
    /\ SeqUnion(communities) = Nodes(graph)
    /\ LET r == ComputeStructuralMetricsBody(graph, communities, metrics, ext,
                                             failing, metrics_cache)
       IN  /\ metrics_cache' = r.cache
           /\ metrics_born' = [k \in DOMAIN r.cache |->
                                  IF k \in DOMAIN metrics_cache THEN metrics_born[k]
                                  ELSE now]
           /\ last' = Call("structural_metrics", <<graph.nodes>>, r.raised,
                           [metrics |-> metrics, batches |-> r.batches,
                            values |-> r.values, results |-> r.results],
                           0, r.raised = "none", FALSE)
    /\ UNCHANGED <<redis, analysis_cache, callers, now, storeVars, tdaVars, graphVars, keylog>>

NextStructural ==
    \/ \E n \in 0..MaxPartNodes : SetGraph(PathGraph(n))
    \/ \E metrics \in {<<"degree_centrality">>,
                        <<"degree_centrality", "closeness_centrality">>,
                        <<"density", "diameter", "radius">>},
          cs \in LouvainCommunities(graph), ext \in {"ok", "raise"},
          failing \in {{}, {"closeness_centrality"}} :
          ComputeStructuralMetrics(metrics, cs, ext, failing)

SpecStructural == InitService /\ [][NextStructural]_vars

\* batch_process_subgraphs alone, on whatever graph the model holds
NextRetry ==
    \/ \E n \in 0..MaxPartNodes : SetGraph(Graph(n, {}))
    \/ \E n \in 0..MaxBatch, fn \in {"None", "fn"}, ext \in {"ok", "raise"},
          f \in Fates :
          CallBatchProcessSubgraphs(n, fn, ext, f)

SpecRetry == InitService /\ [][NextRetry]_vars

\* C11: a partitioning call with a positive target size that returns has
\* partitioned the graph it was about: the node sets of its partitions are
\* pairwise disjoint and their union is the node set of the graph.
C11_PartitionCoverage ==
    (/\ last.op \in {"partition_graph", "batch_process_graph",
                    "batch_process_subgraphs"}
     /\ last.key[1] > 0 /\ last.outcome = "none")
    => /\ SeqUnion(last.ret.partitions) = Nodes(graph)
       /\ \A i, j \in 1..Len(last.ret.partitions) :
             i # j => last.ret.partitions[i] \cap last.ret.partitions[j] = {}

\* C12: with a positive target size, every partition but the last has at most
\* target_size nodes, and no partition made of several communities has more
\* than target_size nodes.
C12_PartitionSizeBound ==
    (/\ last.op = "partition_graph" /\ last.key[1] > 0 /\ last.outcome = "none")
    => LET parts == last.ret.partitions
       IN  /\ \A i \in 1..(Len(parts) - 1) : Cardinality(parts[i]) <= last.key[1]
           /\ \A i \in 1..Len(parts) :
                 \/ Cardinality(parts[i]) <= last.key[1]
                 \/ parts[i] \in SeqRange(last.ret.communities)

\* C13: a batch_process_subgraphs call with a positive batch size N that met
\* MemoryError tries the sizes N, N/2, N/4 in this order, and if it fails it
\* fails with RuntimeError, after MAX_RETRIES reductions.
C13_AdaptiveRetry ==
    (/\ last.op = "batch_process_subgraphs" /\ last.held /\ last.key[1] > 0
     /\ last.ret.retries > 0)
    => /\ \A i \in 1..Len(last.ret.sizes) :
             last.ret.sizes[i] = last.key[1] \div (2 ^ (i - 1))
       /\ last.outcome \notin {"none", "NetworkXError"}
             => (last.outcome = "RuntimeError" /\ last.ret.retries = MAX_RETRIES)

memory_thresholds == [warning |-> 70, critical |-> 85]

CACHE_CONFIG == [maxSize |-> "1GB", expirationTime |-> 3600, cleanupInterval |-> 300]

\* GraphAnalysisService._cleanup_cache: the entries older than expirationTime go
AnalysisCleanupCache(c, t) ==
    LET expired_keys == {k \in DOMAIN c : t - c[k].timestamp > CACHE_CONFIG.expirationTime}
    IN  [k \in DOMAIN c \ expired_keys |-> c[k]]

\* GraphAnalysisService._check_resources, the monitor answering memory_usage;
\* `reads` counts the calls of get_memory_usage
CheckResourcesBody(memory_usage, c, t) ==
    IF memory_usage > memory_thresholds.critical
    THEN [raised |-> "ResourceWarning", cache |-> AnalysisCleanupCache(c, t),
          swept |-> TRUE, reads |-> 1]
    ELSE IF memory_usage > memory_thresholds.warning
    THEN [raised |-> "none", cache |-> AnalysisCleanupCache(c, t),
          swept |-> TRUE, reads |-> 1]
    ELSE [raised |-> "none", cache |-> c, swept |-> FALSE, reads |-> 1]

\* what a guarded call left behind: the usage the monitor reported, the usage
\* it would report after the sweep, whether the sweep ran, how often the
\* monitor was asked
GuardRet(usage, after, r) ==
    [usage |-> usage, after |-> after, swept |-> r.swept, reads |-> r.reads]

\* a call of _check_resources()
CheckResources(usage, after) ==
    /\ LET r == CheckResourcesBody(usage, analysis_cache, now)
       IN  /\ analysis_cache' = r.cache
           /\ last' = Call("check_resources", NoKey, r.raised,
                           GuardRet(usage, after, r), 0, FALSE,
                           DOMAIN analysis_cache # {})
    /\ UNCHANGED <<redis, callers, now, storeVars, tdaVars, metricsVars, graphVars, keylog>>

\* a call of analyze_graph_structure(query_params); ext = "raise": one of the
\* computations between the guard and the caching raises
AnalyzeGraphStructure(query_params, usage, after, ext) ==
    /\ LET r == CheckResourcesBody(usage, analysis_cache, now)
           missing == {"metrics", "include_topology", "include_communities"}
                          \ DictKeys(query_params)
           results == [metrics |-> query_params.map["metrics"]]
           cache_results == IF "cache_results" \in DictKeys(query_params)
                            THEN query_params.map["cache_results"] # 0 ELSE TRUE
           ret == GuardRet(usage, after, r) @@ [cache_results |-> cache_results]
       IN  IF missing # {}
           THEN /\ analysis_cache' = analysis_cache
                /\ last' = Call("analyze", NoKey, "ValueError", NoRet, 0, FALSE,
                                DOMAIN analysis_cache # {})
           ELSE IF r.raised # "none" \/ ext = "raise"
           THEN /\ analysis_cache' = r.cache
                /\ last' = Call("analyze", NoKey,
                                IF r.raised # "none" THEN r.raised ELSE "RuntimeError",
                                ret, 0, FALSE,
                                DOMAIN analysis_cache # {})
           ELSE /\ analysis_cache' =
                      IF cache_results
                      THEN ("structure_analysis" :>
                               [results |-> results, params |-> query_params,
                                timestamp |-> now]) @@ r.cache
                      ELSE r.cache
                /\ last' = Call("analyze", NoKey, "none", ret, 0, TRUE,
                                DOMAIN analysis_cache # {})
    /\ UNCHANGED <<redis, callers, now, storeVars, tdaVars, metricsVars, graphVars, keylog>>

QS == Dict(<<"metrics", "include_topology", "include_communities">>,
           [metrics |-> 1, include_topology |-> 1, include_communities |-> 1])

Usages == {50, 69, 70, 71, 85, 86, 95}

NextGuard ==
    \/ Elapse
    \/ \E u \in Usages, a \in {50, 95} : CheckResources(u, a)
    \/ \E q \in {QS, QA, DictSet(QS, "cache_results", 0)}, u \in Usages,
          a \in {50, 95}, ext \in {"ok", "raise"} :
          AnalyzeGraphStructure(q, u, a, ext)

SpecGuard == InitService /\ [][NextGuard]_vars

GuardedStep ==
    /\ last'.turn # last.turn
    /\ last'.op \in {"check_resources", "analyze"}
    /\ last'.ret # NoRet

\* C15: below 70% of the ceiling the request is let through and the cache is
\* left as it is; from 70% up to 85% it is let through and the cache is swept;
\* it is refused only above 85%.
C15_GuardBands ==
    [][GuardedStep =>
        /\ last'.ret.usage < 70
              => (/\ last'.outcome # "ResourceWarning" /\ ~last'.ret.swept
                  /\ DOMAIN analysis_cache \subseteq DOMAIN analysis_cache'
                  /\ last'.op = "check_resources"
                        => analysis_cache' = analysis_cache)
        /\ (70 <= last'.ret.usage /\ last'.ret.usage <= 85)
              => (last'.outcome # "ResourceWarning" /\ last'.ret.swept)
        /\ last'.outcome = "ResourceWarning" => last'.ret.usage > 85]_vars

\* C16: above 85% the guard sweeps the cache, asks the monitor once more, and
\* refuses exactly when the second answer is still above 85%.
C16_CriticalRecheck ==
    [][(GuardedStep /\ last'.ret.usage > 85) =>
        /\ last'.ret.swept
        /\ last'.ret.reads = 2
        /\ (last'.outcome = "ResourceWarning") <=> (last'.ret.after > 85)]_vars

(***************************************************************************)
(* The timeout wrapper of compute_network_tda                              *)
(***************************************************************************)
\* C17: a call of the timeout-wrapped compute_network_tda is back with its
\* caller, with a result or with TimeoutError, no later than
\* COMPUTATION_TIMEOUT seconds after it was made.
C17_BackByDeadline ==
    [][(last'.op = "tda" /\ last'.turn # last.turn)
       => now' - now <= COMPUTATION_TIMEOUT]_vars

(***************************************************************************)
(* TDAComputationService called from several threads.  A step is one       *)
(* statement that reads or writes self._cache, or the computation between   *)
(* two of them; the service takes no lock.                                 *)
(***************************************************************************)
Enter(t, op, pc, key, data, params, result) ==
    [callers EXCEPT ![t] = [pc |-> pc, op |-> op, key |-> key, data |-> data,
                            params |-> params, result |-> result,
                            outcome |-> "none", overlapped |-> FALSE]]

Leave(t, outcome, result) ==
    [callers EXCEPT ![t].pc = "idle", ![t].outcome = outcome, ![t].result = result]

\* lines 121-130 of compute_network_tda, under validate_input: the key and
\* the membership test
RequestStart(t, data, params) ==
    /\ callers[t].pc = "idle"
    /\ LET cache_key == GenerateCacheKey(data, params)
           others == {u \in 1..MaxCallers \ {t} :
                         callers[u].pc = "computing" /\ callers[u].key = cache_key}
           entered == Enter(t, "tda",
                            IF cache_key \in DictKeys(cache) THEN "hit" ELSE "computing",
                            cache_key, data, params, NoRet)
       IN  callers' =
             IF Size(data) = 0 \/ ~data.finite
             THEN Leave(t, "ValueError", NoRet)
             ELSE IF cache_key \notin DictKeys(cache) /\ data.rows > MAX_BATCH_SIZE
             THEN [Enter(t, "tda", "idle", cache_key, data, params, NoRet)
                      EXCEPT ![t].outcome = BatchComputeTda(data, MAX_BATCH_SIZE).raised]
             ELSE [u \in 1..MaxCallers |->
                     IF u = t THEN [entered[t] EXCEPT !.overlapped = others # {}]
                     ELSE IF u \in others THEN [entered[u] EXCEPT !.overlapped = TRUE]
                     ELSE entered[u]]
    /\ UNCHANGED <<redis, analysis_cache, now, storeVars, tdaVars, metricsVars, graphVars, keylog, last>>

\* line 124: return self._cache[cache_key]
ReturnHit(t) ==
    /\ callers[t].pc = "hit"
    /\ callers' = IF callers[t].key \in DictKeys(cache)
                  THEN Leave(t, "hit", cache.map[callers[t].key])
                  ELSE Leave(t, "KeyError", NoRet)
    /\ UNCHANGED <<redis, analysis_cache, now, storeVars, tdaVars, metricsVars, graphVars, keylog, last>>

\* lines 133-152: the computation, up to the results dict
Compute(t, ext) ==
    /\ callers[t].pc = "computing"
    /\ LET tda == ComputeTda(callers[t].data, callers[t].params, ext,
                             TdaState(tda_params, tda_cache, tda_perf))
           results == [persistence_diagram |-> tda.result.persistence_diagram,
                       computation_time |-> "computation_time", timestamp |-> now]
       IN  /\ tda_params' = tda.st.params
           /\ tda_cache' = tda.st.cache
           /\ tda_perf' = tda.st.perf
           /\ callers' =
                IF tda.raised # "none" THEN Leave(t, tda.raised, NoRet)
                ELSE IF tda.result.persistence_diagram.cols # VizRequiredCols
                THEN Leave(t, "ValueError", NoRet)
                ELSE IF "computation_time" \notin tda.result.performance_metrics
                THEN Leave(t, "KeyError", NoRet)
                ELSE [callers EXCEPT ![t].pc = "caching", ![t].result = results]
    /\ UNCHANGED <<redis, analysis_cache, now, storeVars, metricsVars, graphVars, keylog, last>>

\* a thread calls _cache_result(key, result)
PutStart(t, key, result) ==
    /\ callers[t].pc = "idle"
    /\ callers' = Enter(t, "put", "caching", key, DE, None, result)
    /\ UNCHANGED <<redis, analysis_cache, now, storeVars, tdaVars, metricsVars, graphVars, keylog, last>>

\* lines 222-223 of _cache_result: the size test, and the sweep if it is due
CacheCheck(t) ==
    /\ callers[t].pc = "caching"
    /\ LET swept == IF AtCapacity(cache, cache_config)
                    THEN CleanupCache(cache, now, cache_config)
                    ELSE [raised |-> "none", cache |-> cache]
       IN  /\ cache' = swept.cache
           /\ callers' = IF swept.raised # "none" THEN Leave(t, swept.raised, NoRet)
                         ELSE [callers EXCEPT ![t].pc = "insert"]
    /\ UNCHANGED <<redis, analysis_cache, now, cache_config, tdaVars, metricsVars, graphVars, keylog, last>>

\* lines 225-228 of _cache_result: the assignment
Insert(t) ==
    /\ callers[t].pc = "insert"
    /\ cache' = DictSet(cache, callers[t].key, Entry(callers[t].result, now))
    /\ callers' = Leave(t, "none", callers[t].result)
    /\ UNCHANGED <<redis, analysis_cache, now, cache_config, tdaVars, metricsVars, graphVars, keylog, last>>

NextRace ==
    \E t \in 1..MaxCallers :
        \/ \E d \in {D1, DL}, p \in {None, PA} : RequestStart(t, d, p)
        \/ ReturnHit(t)
        \/ \E ext \in {"ok", "raise"} : Compute(t, ext)
        \/ \E k \in StoreKeys, v \in Payloads : PutStart(t, k, v)
        \/ CacheCheck(t)
        \/ Insert(t)

SpecRace == InitService /\ [][NextRace]_vars

\* C18: no two threads are computing for the same key at the same time.
C18_SingleFlight ==
    \A t, u \in 1..MaxCallers :
        (t # u /\ callers[t].pc = "computing" /\ callers[u].pc = "computing")
        => callers[t].key # callers[u].key

\* C19: when the threads have all finished a request for one and the same key,
\* made while another was computing for it, and the store holds nothing for
\* any other key, the store holds one entry for that key, with the payload one
\* of the requests computed.
C19_OneEntryAfterBoth ==
    LET k == callers[1].key
    IN  (/\ \A t \in 1..MaxCallers :
               /\ callers[t].pc = "idle" /\ callers[t].op = "tda"
               /\ callers[t].key = k /\ callers[t].overlapped
               /\ callers[t].outcome # "RuntimeError"
         /\ DictKeys(cache) \subseteq {k})
        => /\ Cardinality({i \in 1..CacheLen(cache) : cache.order[i] = k}) = 1
           /\ \E t \in 1..MaxCallers : cache.map[k].result = callers[t].result

\* C20: whatever the interleaving of puts, lookups and sweeps, the store never
\* holds more than max_size entries and no call ends in a KeyError for a key
\* that another thread removed.
C20_AtomicMutations ==
    /\ CacheLen(cache) <= cache_config.max_size
    /\ \A t \in 1..MaxCallers : callers[t].outcome # "KeyError"

(***************************************************************************)
(* Batch sizes, empty inputs and aggregated counts                         *)
(* (models/graph_model.py, utils/graph_utils.py,                           *)
(* services/network_metrics.py)                                            *)
(***************************************************************************)
\* the 2500-node input of the scenario and its target size of 1000, one node
\* standing for 500
ScenarioNodes == 5
ScenarioTarget == 2

\* the sum of the node counts of the processed subgraphs
RECURSIVE NodeCount(_)
NodeCount(results) ==
    IF results = <<>> THEN 0
    ELSE Cardinality(Head(results).processed) + NodeCount(Tail(results))

\* NetworkMetricsService.batch_compute_metrics(metrics, batch_size), the graph
\* of the model given by its communities
BatchComputeMetricsBody(communities, metrics, batch_size, ext, fates) ==
    LET r == BatchProcessSubgraphsBody(communities, batch_size, "fn", ext, fates)
        batch_count == Len(r.results)
        processed_nodes == IF metrics # <<>> /\ metrics[1] \in SUPPORTED_METRICS
                           THEN NodeCount(r.results) ELSE 0
        counted(raised, b, n) ==
            [raised |-> raised, batch_count |-> b, processed_nodes |-> n,
             handed |-> r.handed, retries |-> r.retries]
    IN  IF r.raised # "none" THEN counted(r.raised, 0, 0)
        ELSE IF batch_count > 0 /\ metrics = <<>> THEN counted("IndexError", 0, 0)
        ELSE IF batch_count = 0
        THEN counted("ZeroDivisionError", batch_count, processed_nodes)
        ELSE counted("none", batch_count, processed_nodes)

\* a call of batch_compute_metrics(metrics, batch_size)
BatchComputeMetrics(metrics, batch_size, ext, fates) ==
    /\ LET r == BatchComputeMetricsBody(SomeCommunities(graph), metrics,
                                        batch_size, ext, fates)
       IN  last' = Call("batch_compute_metrics", <<batch_size>>, r.raised,
                        [metrics |-> metrics, batch_count |-> r.batch_count,
                         processed_nodes |-> r.processed_nodes,
                         partitions |-> r.handed, retries |-> r.retries],
                        0, r.raised = "none", metrics # <<>>)
    /\ UNCHANGED <<redis, analysis_cache, callers, now, storeVars, tdaVars, metricsVars, graphVars, keylog>>

\* MemoryError in every attempt, or in none
SteadyFates == {[i \in 1..MAX_RETRIES |-> v] : v \in {0, MaxPartNodes + 1}}

NextBatch ==
    \/ \E n \in 0..MaxPartNodes : SetGraph(Graph(n, {}))
    \/ \E n \in -1..MaxBatch, ext \in {"ok", "raise"} :
          PartitionGraph(n, SomeCommunities(graph), ext)
    \/ \E n \in -1..MaxBatch, ext \in {"ok", "raise"} :
          BatchProcessGraph(n, SomeCommunities(graph), ext)
    \/ \E n \in -1..MaxBatch, fn \in {"None", "fn"}, ext \in {"ok", "raise"},
          f \in SteadyFates :
          CallBatchProcessSubgraphs(n, fn, ext, f)
    \/ \E m \in {<<>>, <<"degree_centrality">>, <<"pagerank">>}, n \in -1..MaxBatch,
          ext \in {"ok", "raise"}, f \in SteadyFates :
          BatchComputeMetrics(m, n, ext, f)

SpecBatch == InitService /\ [][NextBatch]_vars

CompleteGraph(n) == Graph(n, {{u, v} : u, v \in 1..n} \ {{u} : u \in 1..n})

\* the scenario: a graph of ScenarioNodes nodes, any two of them joined, so
\* that every grouping of the nodes is a possible list of communities
NextScenario ==
    \/ \E g \in {EmptyGraph, CompleteGraph(ScenarioNodes)} : SetGraph(g)
    \/ \E cs \in LouvainCommunities(graph) : PartitionGraph(ScenarioTarget, cs, "ok")

SpecScenario == InitService /\ [][NextScenario]_vars

\* C27: batch_compute_metrics with a positive batch size and a metric to
\* compute, met by no MemoryError and no library error, completes without
\* error and reports batch_count as the number of partitions and
\* processed_nodes as the number of nodes of the graph; so it does for a graph
\* that yields no partition.
C27_AggregatedNodeCount ==
    (/\ last.op = "batch_compute_metrics" /\ last.key[1] > 0 /\ last.held
     /\ last.ret.retries = 0 /\ last.outcome # "NetworkXError")
    => /\ last.outcome = "none"
       /\ last.ret.batch_count = Len(last.ret.partitions)
       /\ last.ret.processed_nodes = graph.nodes

\* C28: partitioning the scenario's input of ScenarioNodes nodes with the
\* target size ScenarioTarget gives exactly three partitions, of the sizes
\* target, target and the rest, in this order.
C28_ScenarioPartitions ==
    (/\ last.op = "partition_graph" /\ graph.nodes = ScenarioNodes
     /\ last.key[1] = ScenarioTarget /\ last.outcome = "none")
    => [i \in 1..Len(last.ret.partitions) |-> Cardinality(last.ret.partitions[i])]
          = <<ScenarioTarget, ScenarioTarget, ScenarioNodes - 2 * ScenarioTarget>>

\* C29: a batch_process_graph or batch_process_subgraphs call with a batch
\* size below one ends with ValueError, having partitioned nothing, processed
\* nothing and retried nothing, and leaves every piece of state as it was.
C29_NonPositiveRejected ==
    [][(/\ last'.turn # last.turn
        /\ last'.op \in {"batch_process_graph", "batch_process_subgraphs"}
        /\ last'.key[1] < 1)
       => /\ last'.outcome = "ValueError"
          /\ ~last'.computed
          /\ last'.ret.partitions = <<>> /\ last'.ret.results = <<>>
          /\ last'.ret.retries = 0
          /\ UNCHANGED <<redis, analysis_cache, callers, now, storeVars, tdaVars,
                         metricsVars, graphVars, keylog>>]_vars

C29_RejectedOnLoadedGraph ==
    /\ last.op \in {"batch_process_graph", "batch_process_subgraphs"}
    /\ last.key[1] < 1 /\ last.outcome = "ValueError" /\ graph.nodes > 0

\* C30: _partition_graph on a graph without nodes, and batch_process_graph on
\* it with a positive batch size, return an empty list and raise nothing,
\* unless the community detection of the library itself raises.
C30_EmptyInputEmptyPartitions ==
    (/\ graph.nodes = 0
     /\ \/ last.op = "partition_graph"
        \/ last.op = "batch_process_graph" /\ last.key[1] > 0
     /\ last.outcome # "NetworkXError")
    => (last.outcome = "none" /\ last.ret.partitions = <<>>)

C30_EmptyGraphPartitioned ==
    /\ graph.nodes = 0 /\ last.op = "batch_process_graph" /\ last.key[1] > 0
    /\ last.outcome = "none" /\ last.ret.partitions = <<>>

(***************************************************************************)
(* Aggregation of batch results (services/tda_computation.py)              *)
(***************************************************************************)
MaxParts == 3   \* most partitions whose results are aggregated

\* a persistence diagram: an array of `cols` columns, given by its rows
Diagram(rows, cols) == [rows |-> rows, cols |-> cols]

\* np.vstack(diagrams): the rows of the arrays one after the other; it raises
\* for an empty list and for arrays that differ in their number of columns
RECURSIVE Stacked(_)
Stacked(diagrams) ==
    IF diagrams = <<>> THEN <<>>
    ELSE Head(diagrams).rows \o Stacked(Tail(diagrams))

\* sum(...) over a list of numbers
RECURSIVE Sum(_)
Sum(numbers) == IF numbers = <<>> THEN 0 ELSE Head(numbers) + Sum(Tail(numbers))

\* the inner loop of _aggregate_batch_results over the features of one result
RECURSIVE AppendFeatures(_, _)
AppendFeatures(features, items) ==
    IF items = <<>> THEN features
    ELSE LET feature == Head(items)[1]
             value == Head(items)[2]
             before == IF feature \in DictKeys(features)
                       THEN features.map[feature] ELSE <<>>
         IN  AppendFeatures(DictSet(features, feature, Append(before, value)),
                            Tail(items))

\* the outer loop over the results
RECURSIVE FeatureLoop(_, _)
FeatureLoop(features, batch_results) ==
    IF batch_results = <<>> THEN features
    ELSE FeatureLoop(AppendFeatures(features, Str(Head(batch_results).features)),
                     Tail(batch_results))

\* the results in the opposite order
Reversed(batch_results) ==
    [i \in 1..Len(batch_results) |-> batch_results[Len(batch_results) + 1 - i]]

\* _aggregate_batch_results stacking the diagrams from the last partition to
\* the first
AggregateBatchResultsBodyBackwards(batch_results) ==
    LET diagrams == [i \in 1..Len(batch_results) |->
                        Reversed(batch_results)[i].persistence_diagram]
    IN  IF diagrams = <<>> \/ \E i \in 1..Len(diagrams) : diagrams[i].cols # diagrams[1].cols
        THEN [raised |-> "ValueError", aggregated |-> NoRet]
        ELSE [raised |-> "none",
              aggregated |->
                  [persistence_diagram |-> Diagram(Stacked(diagrams), diagrams[1].cols),
                   features |-> FeatureLoop(Dict(<<>>, EmptyMap), batch_results),
                   computation_time |->
                       Sum([i \in 1..Len(batch_results) |->
                               batch_results[i].computation_time])]]

\* _aggregate_batch_results stacking whatever it is given, a diagram of
\* another width taken as if it had the width of the first
AggregateBatchResultsBodyAnyWidth(batch_results) ==
    LET diagrams == [i \in 1..Len(batch_results) |->
                        batch_results[i].persistence_diagram]
    IN  IF diagrams = <<>>
        THEN [raised |-> "ValueError", aggregated |-> NoRet]
        ELSE [raised |-> "none",
              aggregated |->
                  [persistence_diagram |-> Diagram(Stacked(diagrams), diagrams[1].cols),
                   features |-> FeatureLoop(Dict(<<>>, EmptyMap), batch_results),
                   computation_time |->
                       Sum([i \in 1..Len(batch_results) |->
                               batch_results[i].computation_time])]]

\* TDAComputationService._aggregate_batch_results(batch_results)
AggregateBatchResultsBody(batch_results) ==
    LET diagrams == [i \in 1..Len(batch_results) |->
                        batch_results[i].persistence_diagram]
    IN  IF diagrams = <<>> \/ \E i \in 1..Len(diagrams) : diagrams[i].cols # diagrams[1].cols
        THEN [raised |-> "ValueError", aggregated |-> NoRet]
        ELSE [raised |-> "none",
              aggregated |->
                  [persistence_diagram |-> Diagram(Stacked(diagrams), diagrams[1].cols),
                   features |-> FeatureLoop(Dict(<<>>, EmptyMap), batch_results),
                   computation_time |->
                       Sum([i \in 1..Len(batch_results) |->
                               batch_results[i].computation_time])]]

\* a call of _aggregate_batch_results(batch_results)
AggregateBatchResults(batch_results) ==
    /\ LET r == AggregateBatchResultsBody(batch_results)
       IN  last' = Call("aggregate", NoKey, r.raised,
                        [batch_results |-> batch_results, aggregated |-> r.aggregated],
                        0, r.raised = "none", FALSE)
    /\ UNCHANGED <<redis, analysis_cache, callers, now, storeVars, tdaVars, metricsVars, graphVars, keylog>>

\* a call of batch_compute_tda(network_data, batch_size): the batches of
\* batch_process_subgraphs, compute_network_tda on each of them, and the
\* aggregate of the results
CallBatchComputeTda(network_data, batch_size) ==
    /\ LET batches == BatchComputeTda(network_data, batch_size)
           r == IF batches.raised # "none"
                THEN [raised |-> batches.raised, aggregated |-> NoRet]
                ELSE AggregateBatchResultsBody(batches.results)
       IN  last' = Call("batch_compute_tda", <<batch_size>>, r.raised,
                        [rows |-> network_data.rows, aggregated |-> r.aggregated],
                        0, r.raised = "none", FALSE)
    /\ UNCHANGED <<redis, analysis_cache, callers, now, storeVars, tdaVars, metricsVars, graphVars, keylog>>

\* results of single partitions: diagrams of one row, of two rows and of no
\* row (this one with three columns); feature dicts of two names, of one of
\* them and of none; computation times in tenths of a second
PartResults ==
    {[persistence_diagram |-> Diagram(<< <<0, 1>> >>, 2),
      features |-> Dict(<<"betti", "entropy">>, [betti |-> 1, entropy |-> 2]),
      computation_time |-> 1],
     [persistence_diagram |-> Diagram(<< <<0, 2>>, <<1, 3>> >>, 2),
      features |-> Dict(<<"entropy">>, [entropy |-> 4]),
      computation_time |-> 2],
     [persistence_diagram |-> Diagram(<<>>, 3),
      features |-> Dict(<<>>, EmptyMap),
      computation_time |-> 4]}

NextAggregate ==
    \/ \E n \in 0..MaxParts : \E batch_results \in [1..n -> PartResults] :
          AggregateBatchResults(batch_results)
    \/ \E network_data \in {DE, D1, DL}, batch_size \in 0..MaxBatch :
          CallBatchComputeTda(network_data, batch_size)

SpecAggregate == InitService /\ [][NextAggregate]_vars

\* the rows that the partitions before the i-th have
RECURSIVE RowsBefore(_, _)
RowsBefore(batch_results, i) ==
    IF i <= 1 THEN 0
    ELSE Len(batch_results[i - 1].persistence_diagram.rows)
            + RowsBefore(batch_results, i - 1)

\* the computation times of the first i partitions together
RECURSIVE TimeUpTo(_, _)
TimeUpTo(batch_results, i) ==
    IF i = 0 THEN 0
    ELSE TimeUpTo(batch_results, i - 1) + batch_results[i].computation_time

\* C25: in an aggregated result, row k of partition i's diagram is the row
\* that follows all rows of the partitions before i, there are no other rows,
\* and computation_time is the sum of the partitions' computation times.
C25_OrderKept ==
    (last.op = "aggregate" /\ last.outcome = "none")
    => LET br == last.ret.batch_results
           agg == last.ret.aggregated
           n == Len(br)
       IN  /\ Len(agg.persistence_diagram.rows) = RowsBefore(br, n + 1)
           /\ \A i \in 1..n : \A k \in 1..Len(br[i].persistence_diagram.rows) :
                 agg.persistence_diagram.rows[RowsBefore(br, i) + k]
                    = br[i].persistence_diagram.rows[k]
           /\ agg.computation_time = TimeUpTo(br, n)

C25_SeveralAggregated ==
    /\ last.op = "aggregate" /\ last.outcome = "none"
    /\ Len(last.ret.batch_results) >= 2
    /\ last.ret.batch_results[1].persistence_diagram
          # last.ret.batch_results[2].persistence_diagram
    /\ Len(last.ret.aggregated.persistence_diagram.rows) >= 3

\* C26: in an aggregated result every feature name has a list with one entry
\* for each partition, the i-th entry being the value of the feature in the
\* i-th partition, also when some partition's result lacks the name.
C26_OneEntryPerPartition ==
    (last.op = "aggregate" /\ last.outcome = "none")
    => LET br == last.ret.batch_results
           features == last.ret.aggregated.features
       IN  \A f \in DictKeys(features) :
              /\ Len(features.map[f]) = Len(br)
              /\ \A i \in 1..Len(br) :
                    f \in DictKeys(br[i].features)
                       => features.map[f][i] = br[i].features.map[f]

(***************************************************************************)
(* The request handlers (app.py)                                           *)
(***************************************************************************)
\* validate_memory_requirements(params); enough: the memory that is available
\* covers what the computation needs.  The call of estimate_memory_requirement
\* raises NameError when the module has no such name, and the handler of the
\* function answers False.
ValidateMemoryRequirements(enough) ==
    LET app_globals ==
            {"FastAPI", "HTTPException", "BackgroundTasks", "CORSMiddleware",
             "Counter", "Histogram", "generate_latest", "uvicorn", "BaseModel",
             "redis", "psutil", "logging", "Dict", "List", "Optional", "Any",
             "asyncio", "datetime", "TDASettings", "GraphAnalysisService",
             "TDAComputationService", "logger", "app", "graph_service",
             "tda_service", "cache", "REQUEST_COUNT", "RESPONSE_TIME",
             "MEMORY_USAGE", "GraphAnalysisRequest", "TDARequest",
             "NetworkMetricsRequest", "startup_event", "shutdown_event",
             "compute_graph_analysis", "compute_tda", "compute_network_metrics",
             "health_check", "metrics", "monitor_memory_usage",
             "validate_memory_requirements", "handle_exception"}
    IN  IF "estimate_memory_requirement" \notin app_globals THEN FALSE ELSE enough

\* what a handler did: the stages it went through, in their order (cache_get,
\* guard, compute: the service method was entered, cache_put), the exception
\* its `except Exception` clause caught, and the store it leaves
Handled(status, caught, stages, value, store) ==
    [status |-> status, caught |-> caught, stages |-> stages, value |-> value,
     store |-> store]

\* compute_graph_analysis with the guard asked before the cache
GraphAnalysisBodyGuardFirst(worker, query_params, use_cache, backend, enough, store) ==
    LET cache_key == AppCacheKey(worker, query_params)
    IN  IF ~ValidateMemoryRequirements(enough)
        THEN Handled("HTTP500", "HTTPException", <<"guard">>, NoRet, store)
        ELSE IF use_cache /\ backend = "down"
        THEN Handled("HTTP500", "ConnectionError", <<"guard", "cache_get">>, NoRet, store)
        ELSE IF use_cache /\ cache_key \in DOMAIN store
        THEN Handled("200", "none", <<"guard", "cache_get">>, store[cache_key], store)
        ELSE Handled("HTTP500", "TypeError", <<"guard", "cache_get">>, NoRet, store)

\* the body of compute_graph_analysis(request), run in process `worker`;
\* backend = "down": the calls of the Redis client raise ConnectionError
GraphAnalysisBody(worker, query_params, use_cache, backend, enough, store) ==
    LET cache_key == AppCacheKey(worker, query_params)
        read == IF use_cache THEN <<"cache_get">> ELSE <<>>
        results == [metrics |-> query_params.map["metrics"]]
    IN  IF use_cache /\ backend = "down"
        THEN Handled("HTTP500", "ConnectionError", read, NoRet, store)
        ELSE IF use_cache /\ cache_key \in DOMAIN store
        THEN Handled("200", "none", read, store[cache_key], store)
        ELSE IF ~ValidateMemoryRequirements(enough)
        THEN Handled("HTTP500", "HTTPException", read \o <<"guard">>, NoRet, store)
        ELSE IF "batch_size" \notin {"self", "query_params", "performance_config"}
        THEN Handled("HTTP500", "TypeError", read \o <<"guard">>, NoRet, store)
        ELSE IF use_cache
        THEN Handled("200", "none", read \o <<"guard", "compute", "cache_put">>,
                     results, (cache_key :> results) @@ store)
        ELSE Handled("200", "none", read \o <<"guard", "compute">>, results, store)

\* what a request left behind: what it asked for, what the handler did
Answer(use_cache, backend, enough, r) ==
    [use_cache |-> use_cache, backend |-> backend, enough |-> enough,
     stages |-> r.stages, caught |-> r.caught, value |-> r.value]

\* how a request ended: with a cached value, with a computed one, or with the
\* status of the HTTPException
Outcome(r) ==
    IF r.status # "200" THEN r.status
    ELSE IF "compute" \in SeqRange(r.stages) THEN "none" ELSE "hit"

\* POST /api/v1/analytics/graph
ComputeGraphAnalysis(worker, query_params, use_cache, backend, enough) ==
    /\ LET r == GraphAnalysisBody(worker, query_params, use_cache, backend,
                                  enough, redis)
       IN  /\ redis' = r.store
           /\ last' = Call("graph_analysis",
                           IF use_cache THEN AppCacheKey(worker, query_params)
                           ELSE NoKey,
                           Outcome(r), Answer(use_cache, backend, enough, r),
                           0, "compute" \in SeqRange(r.stages),
                           AppCacheKey(worker, query_params) \in DOMAIN redis)
    /\ UNCHANGED <<analysis_cache, callers, now, storeVars, tdaVars, metricsVars, graphVars, keylog>>

\* POST /api/v1/analytics/tda: the guard, then compute_network_tda, which
\* validate_input turns away because request.tda_params is a dict
ComputeTdaRequest(request_params, enough) ==
    /\ LET r == IF ~ValidateMemoryRequirements(enough)
                THEN Handled("HTTP500", "HTTPException", <<"guard">>, NoRet, redis)
                ELSE Handled("HTTP500", "ValueError", <<"guard">>, NoRet, redis)
       IN  last' = Call("tda_request", NoKey, Outcome(r),
                        Answer(FALSE, "up", enough, r), 0, FALSE, FALSE)
    /\ UNCHANGED <<redis, analysis_cache, callers, now, storeVars, tdaVars, metricsVars, graphVars, keylog>>

\* POST /api/v1/analytics/metrics: no guard; GraphAnalysisService has no
\* method compute_network_metrics
ComputeNetworkMetricsRequest(worker, metrics, query_params, use_cache, backend) ==
    /\ LET cache_key == <<"network_metrics", <<"hash", worker, metrics>>,
                          <<"hash", worker,
                            IF query_params.none THEN "None" ELSE Str(query_params)>>>>
           read == IF use_cache THEN <<"cache_get">> ELSE <<>>
           r == IF use_cache /\ backend = "down"
                THEN Handled("HTTP500", "ConnectionError", read, NoRet, redis)
                ELSE IF use_cache /\ cache_key \in DOMAIN redis
                THEN Handled("200", "none", read, redis[cache_key], redis)
                ELSE Handled("HTTP500", "AttributeError", read, NoRet, redis)
       IN  last' = Call("network_metrics", IF use_cache THEN cache_key ELSE NoKey,
                        Outcome(r), Answer(use_cache, backend, TRUE, r),
                        0, FALSE, cache_key \in DOMAIN redis)
    /\ UNCHANGED <<redis, analysis_cache, callers, now, storeVars, tdaVars, metricsVars, graphVars, keylog>>

\* another client of the Redis server stores a value under a key
RedisSetex(key, value) ==
    /\ key \notin DOMAIN redis
    /\ redis' = (key :> value) @@ redis
    /\ UNCHANGED <<analysis_cache, callers, now, storeVars, tdaVars, metricsVars, graphVars, keylog, last>>

NextApp ==
    \/ \E w \in 1..MaxWorkers : RedisSetex(AppCacheKey(w, QS), [metrics |-> 1])
    \/ RedisSetex(<<"network_metrics", <<"hash", 1, <<"degree_centrality">>>>,
                    <<"hash", 1, "None">>>>, [degree_centrality |-> 1])
    \/ \E w \in 1..MaxWorkers, q \in {QS, QB}, use_cache \in BOOLEAN,
          backend \in {"up", "down"}, enough \in BOOLEAN :
          ComputeGraphAnalysis(w, q, use_cache, backend, enough)
    \/ \E enough \in BOOLEAN : ComputeTdaRequest(PA, enough)
    \/ \E w \in 1..MaxWorkers, use_cache \in BOOLEAN, backend \in {"up", "down"} :
          ComputeNetworkMetricsRequest(w, <<"degree_centrality">>, None,
                                       use_cache, backend)
    \/ \E q \in {QS, DictSet(QS, "cache_results", 0)}, ext \in {"ok", "raise"} :
          AnalyzeGraphStructure(q, 50, 50, ext)

SpecApp == InitService /\ [][NextApp]_vars

\* a request has been handled
RequestStep ==
    /\ last'.turn # last.turn
    /\ last'.op \in {"graph_analysis", "network_metrics"}

\* C21: a request with use_cache false is answered without a read of the
\* Redis store and without a write to it, never with a cached value, and,
\* when there is memory enough, with the computation having been run; a call
\* of analyze_graph_structure with cache_results false adds nothing to the
\* cache of the service and changes no entry of it.
C21_EligibleOnly ==
    [][/\ (RequestStep /\ ~last'.ret.use_cache)
          => /\ redis' = redis
             /\ "cache_get" \notin SeqRange(last'.ret.stages)
             /\ "cache_put" \notin SeqRange(last'.ret.stages)
             /\ last'.outcome # "hit"
             /\ last'.ret.enough => "compute" \in SeqRange(last'.ret.stages)
       /\ (/\ last'.turn # last.turn /\ last'.op = "analyze"
           /\ last'.ret # NoRet /\ ~last'.ret.cache_results)
          => \A k \in DOMAIN analysis_cache' :
                k \in DOMAIN analysis_cache /\ analysis_cache'[k] = analysis_cache[k]
      ]_vars

\* xs is the beginning of ys
IsPrefix(xs, ys) == Len(xs) <= Len(ys) /\ xs = SubSeq(ys, 1, Len(xs))

C23_BackendFailureBypassed ==
    (/\ last.op \in {"graph_analysis", "network_metrics"}
     /\ last.ret.use_cache /\ last.ret.backend = "down" /\ last.ret.enough)
    => (last.outcome = "none" /\ last.computed)

\* C24: a request that the memory guard refused is answered with status 503,
\* a request whose computation ran out of time with status 408.
C24_SpecificErrorKind ==
    /\ (/\ last.op \in {"graph_analysis", "tda_request"}
        /\ last.ret.caught = "HTTPException")
       => last.outcome = "HTTP503"
    /\ (/\ last.op = "tda_request" /\ last.ret.caught = "TimeoutError")
       => last.outcome = "HTTP408"

\* C31: an aggregation of partition results whose diagrams differ in their
\* number of columns ends with an exception and returns no aggregate.
C31_IncompatibleShapesFail ==
    (/\ last.op = "aggregate"
     /\ \E i, j \in 1..Len(last.ret.batch_results) :
           last.ret.batch_results[i].persistence_diagram.cols
              # last.ret.batch_results[j].persistence_diagram.cols)
    => (last.outcome # "none" /\ last.ret.aggregated = NoRet)

C31_MixedWidthsRefused ==
    /\ last.op = "aggregate" /\ Len(last.ret.batch_results) >= 2
    /\ last.ret.batch_results[1].persistence_diagram.cols = 2
    /\ last.ret.batch_results[Len(last.ret.batch_results)].persistence_diagram.cols = 3
    /\ last.outcome = "ValueError" /\ ~last.computed

\* C32: batch_compute_metrics called with a metric name that is not among the
\* supported ones ends with ValueError, the error of the two other entry
\* points for such a name, whatever the batch size, and computes nothing.
C32_UnknownMetricRejected ==
    (/\ last.op = "batch_compute_metrics"
     /\ SeqRange(last.ret.metrics) \ SUPPORTED_METRICS # {})
    => (last.outcome = "ValueError" /\ ~last.computed)

\* C33: batch_compute_tda on an array with rows and a positive batch size
\* returns an aggregate with a persistence diagram and with at least one
\* feature.
C33_BatchReturnsAggregate ==
    (/\ last.op = "batch_compute_tda"
     /\ last.ret.rows > 0 /\ last.key[1] > 0)
    => /\ last.outcome = "none"
       /\ last.ret.aggregated # NoRet
       /\ DictKeys(last.ret.aggregated.features) # {}

\* C34: _validate_params ends with ValueError for every parameter map that
\* holds an epsilon outside [0.1, 1.0], a minPoints outside [5, 50] or a
\* dimension other than 2 and 3, whatever else the map holds or lacks.
C34_OutOfRangeIsValueError ==
    (/\ last.op = "validate_params"
     /\ \E i \in 1..Len(last.key[1]) :
           LET name == last.key[1][i][1]
               value == last.key[1][i][2]
           IN  \/ name = "epsilon" /\ ~(1 <= value /\ value <= 10)
               \/ name = "minPoints" /\ ~(5 <= value /\ value <= 50)
               \/ name = "dimension" /\ value \notin {2, 3})
    => last.outcome = "ValueError"

\* C35: a call of compute_persistence_homology that follows a call of it on
\* the same distance matrix, with no call in between, returns the diagram
\* that the call before it returned.
C35_SecondCallSameDiagram ==
    [][(/\ last.op = "homology" /\ last'.op = "homology"
        /\ last'.turn # last.turn /\ last'.key = last.key)
       => last'.ret = last.ret]_vars

C35_CalledAgain ==
    /\ last.op = "homology" /\ last.outcome = "hit" /\ ~last.computed
    /\ last.ret = tda_cache[last.key]
    /\ last.ret = Persistence(last.key[2], tda_params)

\* C40: a call of compute_tda, with parameters of its own or without, returns
\* or fails with the parameters of the model being what they were before it.
C40_OverrideOnlyForTheCall ==
    [][(last'.turn # last.turn /\ last'.op = "compute_tda")
       => tda_params' = tda_params]_vars

\* C36: in a batch_process_subgraphs call, an error other than MemoryError
\* ends the call in the attempt in which it arose: a batch size below one
\* gives the ValueError of the first attempt with no retry, a call that ends
\* with such an error has made one attempt more than it has retried, and only
\* a call that retried MAX_RETRIES times ends with RuntimeError.
C36_OnlyMemoryErrorRetried ==
    (last.op = "batch_process_subgraphs" /\ last.held)
    => /\ last.key[1] < 1
             => /\ last.outcome = "ValueError" /\ last.ret.retries = 0
                /\ last.ret.sizes = <<last.key[1]>>
       /\ last.outcome \notin {"none", "RuntimeError"}
             => Len(last.ret.sizes) = last.ret.retries + 1
       /\ last.outcome = "RuntimeError"
             => (last.ret.retries = MAX_RETRIES /\ Len(last.ret.sizes) = MAX_RETRIES)

C36_ErrorAfterOneRetry ==
    /\ last.op = "batch_process_subgraphs" /\ last.held
    /\ last.outcome = "ValueError" /\ last.ret.retries = 1
    /\ last.ret.sizes = <<1, 0>>

\* C37: a batch_process_subgraphs call has ended, with a result or with an
\* exception, after at most MAX_RETRIES attempts at partitioning and
\* computing, and one that used up its retries ended with RuntimeError.
C37_AtMostMaxRetriesAttempts ==
    last.op = "batch_process_subgraphs"
    => /\ Len(last.ret.sizes) <= MAX_RETRIES
       /\ last.ret.retries <= MAX_RETRIES
       /\ last.ret.retries = MAX_RETRIES => last.outcome = "RuntimeError"

C37_RetriesUsedUp ==
    /\ last.op = "batch_process_subgraphs" /\ last.key[1] = MaxBatch
    /\ last.outcome = "RuntimeError" /\ Len(last.ret.sizes) = MAX_RETRIES
    /\ last.ret.sizes[MAX_RETRIES] >= 1

\* C38: a _partition_graph call with a positive target size returns
\* partitions none of which is empty, every community of the detection lies
\* inside one of them, and a community detected before another one is in the
\* same partition as it or in an earlier one.
C38_CommunitiesKeptWhole ==
    (/\ last.op = "partition_graph" /\ last.key[1] > 0 /\ last.outcome = "none")
    => LET parts == last.ret.partitions
           cs == last.ret.communities
           Holders(c) == {k \in 1..Len(parts) : cs[c] \subseteq parts[k]}
       IN  /\ \A k \in 1..Len(parts) : parts[k] # {}
           /\ \A c \in 1..Len(cs) : Holders(c) # {}
           /\ \A c, d \in 1..Len(cs) :
                 c < d => \A k \in Holders(c), l \in Holders(d) : k <= l

C38_SeveralPartitions ==
    /\ last.op = "partition_graph" /\ last.key[1] > 0 /\ last.outcome = "none"
    /\ Len(last.ret.partitions) >= 2
    /\ \E c \in 1..Len(last.ret.communities) :
          Cardinality(last.ret.communities[c]) >= 2

\* C39: _compute_structural_metrics on a graph of more nodes than the batch
\* size returns; it has processed its batches, at least one, and its result
\* holds, for every batch and every metric, the value computed for the batch.
C39_EveryBatchInResult ==
    (/\ last.op = "structural_metrics" /\ last.key[1] > StructuralBatch
     /\ SeqRange(last.ret.metrics) \subseteq SUPPORTED_METRICS)
    => /\ last.outcome = "none"
       /\ Len(last.ret.batches) >= 1
       /\ Len(last.ret.values) = Len(last.ret.batches)
       /\ \A i \in 1..Len(last.ret.values) :
             \A m \in DOMAIN last.ret.values[i].metrics :
                /\ "metrics" \in DOMAIN last.ret.results
                /\ m \in DOMAIN last.ret.results.metrics
                /\ last.ret.results.metrics[m] = last.ret.values[i].metrics[m]
====
